---- MODULE Spec2Model ----
(***************************************************************************)
(* A model of the cleaner package of pitosalas/cleancont:                  *)
(*   - deduplicate.py: create_content_hash and the find_duplicates pass    *)
(*     (two lookup tables, the unique list and the duplicate ledger);      *)
(*   - yaml_utils.py: the sanitizers, validate_yaml_front_matter and one   *)
(*     call of create_safe_front_matter.                                   *)
(* Strings are sequences of one-character strings, so that strip(),        *)
(* lower() and the lexicographic comparison of Python are computed, not    *)
(* assumed.  A date string is a sequence of code points written relative   *)
(* to "0": a digit is itself, "-" is -3.                                   *)
(***************************************************************************)
EXTENDS Integers, Sequences, FiniteSets, TLC

VARIABLES
    posts,          \* find_duplicates: the records the for-loop has taken so far
                    \* (first call), the whole argument (second call)
    i,              \* number of records the loop has processed
    call,           \* 1: find_duplicates(posts); 2: find_duplicates(first result)
    pc,             \* "loop" | "returned" | "raised"
    seen_hashes,    \* content hash -> post
    seen_titles,    \* title key -> post
    duplicates,     \* the ledger
    unique_posts,   \* the unique list
    first_result,   \* what the first call returned: <<unique_posts, duplicates>>
    raised          \* the key of the KeyError that ended the pass, or "none"

VARIABLES
    fm_args,        \* create_safe_front_matter: the arguments of the call
    has_yaml,       \* yaml_utils.HAS_YAML: whether the build has PyYAML
    fm_pc,          \* "idle" | "called" | "built" | "returned"
    fm_text,        \* front_matter_text (line 226)
    fm_warned,      \* the warning of lines 231-233 was printed
    fm_returned     \* the text the call returned

VARIABLES
    sy_text,        \* sanitize_yaml_string: the argument of the call
    sy_pc,          \* "idle" | "called" | "returned"
    sy_result       \* the text the call returned

VARIABLES
    md_blocks,      \* html_to_markdown: the blocks the argument is written from
    md_html,        \* the argument of the call
    md_pc,          \* "idle" | "called" | "returned"
    md_content      \* the text the call returned

VARIABLES
    pp_pc,          \* process_all_posts: "idle" | "start" | "load" | "loop" |
                    \* "body" | "returned" | "raised"
    pp_readable,    \* whether input_file can be opened and holds JSON
    pp_n,           \* len(posts), the number of records of the input
    pp_i,           \* the number of records the for-loop has taken
    pp_post,        \* post, the record the loop took last (<<>>: none yet)
    pp_content,     \* what process_post_content(post) returned or did
    files,          \* the *.md files of output_dir: name -> [writer, text],
                    \* writer the number of the record the text is from
                    \* (0: a file of an earlier run)
    output_dir,     \* whether the directory ../output exists
    written,        \* the writes of this run in their order: [post, base, name]
    processed_count,
    skipped_count

VARIABLES
    main_pc,        \* main(): "idle" | "start" | "dedupe" | "save_clean" |
                    \* "convert" | "converting" | "returned"
    main_readable,  \* whether ../json/wp_posts.json can be opened and holds JSON
    main_n,         \* the number of records it holds
    report,         \* ../output/deduplication_report.json: [run, duplicates],
                    \* run "none" (no file), "earlier" or "this"
    clean,          \* ../output/clean_posts.json: [run, posts]
    main_rc         \* what main() returned: "none" (not yet), 0 or 1

VARIABLES
    ex_content,     \* extract_excerpt: the argument content
    ex_max,         \* the argument max_length
    ex_pc,          \* "idle" | "called" | "returned"
    ex_result       \* what the call returned

dedupe_vars == <<posts, i, call, pc, seen_hashes, seen_titles, duplicates,
                 unique_posts, first_result, raised>>

header_vars == <<fm_args, has_yaml, fm_pc, fm_text, fm_warned, fm_returned>>

sanitize_vars == <<sy_text, sy_pc, sy_result>>

markdown_vars == <<md_blocks, md_html, md_pc, md_content>>

process_vars == <<pp_pc, pp_readable, pp_n, pp_i, pp_post, pp_content, files,
                  output_dir, written, processed_count, skipped_count>>

main_vars == <<main_pc, main_readable, main_n, report, clean, main_rc>>

excerpt_vars == <<ex_content, ex_max, ex_pc, ex_result>>

\* the variables of the other functions, which find_duplicates and
\* create_safe_front_matter leave alone
other_vars == <<sanitize_vars, markdown_vars, process_vars, main_vars,
                excerpt_vars>>

vars == <<dedupe_vars, header_vars, other_vars>>

\* The state of a function no call of which is under way.
IdleDedupe ==
    /\ posts = <<>>
    /\ i = 0
    /\ call = 1
    /\ pc = "loop"
    /\ seen_hashes = <<>>
    /\ seen_titles = <<>>
    /\ duplicates = <<>>
    /\ unique_posts = <<>>
    /\ first_result = <<>>
    /\ raised = "none"

IdleHeader ==
    /\ fm_args = <<>>
    /\ fm_pc = "idle"
    /\ fm_text = <<>>
    /\ fm_warned = FALSE
    /\ fm_returned = <<>>

IdleSanitize ==
    /\ sy_text = <<>>
    /\ sy_pc = "idle"
    /\ sy_result = <<>>

IdleMarkdown ==
    /\ md_blocks = <<>>
    /\ md_html = <<>>
    /\ md_pc = "idle"
    /\ md_content = <<>>

IdleProcess ==
    /\ pp_pc = "idle"
    /\ pp_readable = TRUE
    /\ pp_n = 0
    /\ pp_i = 0
    /\ pp_post = <<>>
    /\ pp_content = <<>>
    /\ files = <<>>
    /\ output_dir = FALSE
    /\ written = <<>>
    /\ processed_count = 0
    /\ skipped_count = 0

NoFile == [run |-> "none", entries |-> <<>>]

IdleMain ==
    /\ main_pc = "idle"
    /\ main_readable = TRUE
    /\ main_n = 0
    /\ report = NoFile
    /\ clean = NoFile
    /\ main_rc = "none"

IdleExcerpt ==
    /\ ex_content = <<>>
    /\ ex_max = 0
    /\ ex_pc = "idle"
    /\ ex_result = <<>>

(***************************************************************************)
(* Bounds                                                                  *)
(***************************************************************************)
\* Longest input sequence handed to find_duplicates.
MaxPosts == 3

\* Most blocks an argument of html_to_markdown is written from.
MaxBlocks == 2

\* Most items of a list in an argument of html_to_markdown.
MaxItems == 2

\* Most records of an input of process_all_posts.
MaxRecords == 3

\* Most records of ../json/wp_posts.json in a run of main().
MaxLoaded == 2

\* Most characters of a word in a short argument of extract_excerpt, and the
\* max_length such an argument is cut to.
MaxWord == 10

(***************************************************************************)
(* Python string helpers                                                   *)
(***************************************************************************)
Whitespace == {" ", "\n", "\t"}

RECURSIVE lstrip(_)
lstrip(s) ==
    IF s # <<>> /\ Head(s) \in Whitespace THEN lstrip(Tail(s)) ELSE s

RECURSIVE rstrip(_)
rstrip(s) ==
    IF s # <<>> /\ s[Len(s)] \in Whitespace
    THEN rstrip(SubSeq(s, 1, Len(s) - 1)) ELSE s

\* str.strip()
strip(s) == rstrip(lstrip(s))

UpperCase ==
    <<"A", "B", "C", "D", "E", "F", "G", "H", "I", "J", "K", "L", "M",
      "N", "O", "P", "Q", "R", "S", "T", "U", "V", "W", "X", "Y", "Z">>
LowerCase ==
    <<"a", "b", "c", "d", "e", "f", "g", "h", "i", "j", "k", "l", "m",
      "n", "o", "p", "q", "r", "s", "t", "u", "v", "w", "x", "y", "z">>
ToLower ==
    [c \in {UpperCase[k] : k \in 1..26} |->
        LowerCase[CHOOSE k \in 1..26 : UpperCase[k] = c]]

lower_char(c) == IF c \in DOMAIN ToLower THEN ToLower[c] ELSE c

\* str.lower()
lower(s) == [k \in 1..Len(s) |-> lower_char(s[k])]

\* a > b for two Python strings (sequences of code points):
\* the first differing position decides, a proper prefix is smaller.
RECURSIVE str_gt(_, _)
str_gt(a, b) ==
    IF a = <<>> THEN FALSE
    ELSE IF b = <<>> THEN TRUE
    ELSE IF Head(a) # Head(b) THEN Head(a) > Head(b)
    ELSE str_gt(Tail(a), Tail(b))

Last(s) == s[Len(s)]

(***************************************************************************)
(* Records.  keys is the set of optional keys the JSON object carries;     *)
(* a field whose key is absent holds the value dict.get() returns for it   *)
(* (None, written 0, for id; "" for date).                                 *)
(***************************************************************************)
NoneId == 0

Titles == { <<>>, <<" ">>, <<"x">>, <<"X">> }
Contents == { <<"a">>, <<"a", " ">>, <<"b">> }
\* "2020-01-01" and "2020-06-01"
Jan == <<2, 0, 2, 0, -3, 0, 1, -3, 0, 1>>
Jun == <<2, 0, 2, 0, -3, 0, 6, -3, 0, 1>>
Dates == { <<>>, Jan, Jun }

\* The n-th record of a WordPress export: it carries id and date, and ids are
\* distinct (the n-th record is given id n).
ExportRecords(n) ==
    { [keys |-> {"id", "date"}, id |-> n, title |-> t, content |-> c, date |-> d] :
        t \in Titles, c \in Contents, d \in Dates }

\* The n-th record of an input in which a record may lack its date.
LooseRecords(n) ==
    ExportRecords(n) \cup
    { [keys |-> {"id"}, id |-> n, title |-> t, content |-> c, date |-> <<>>] :
        t \in Titles, c \in Contents }

(***************************************************************************)
(* create_content_hash: md5 of f"{title}\n{content}".strip().  md5 is      *)
(* taken to be collision-free on these inputs: a digest is written as the  *)
(* byte string it digests.                                                 *)
(***************************************************************************)
create_content_hash(post) == strip(post.title \o <<"\n">> \o post.content)

\* Mutant: line 31 without its strip().
title_key_unstripped(post) == lower(post.title)

\* line 31: post.get('title', {}).get('rendered', '').strip().lower()
title_key(post) == lower(strip(post.title))

\* line 32: post.get('id');  line 33: post.get('date', '')
get_id(post) == IF "id" \in post.keys THEN post.id ELSE NoneId
get_date(post) == IF "date" \in post.keys THEN post.date ELSE <<>>

\* original_post['id'], original_post['date'] raise KeyError on an absent key
HasKey(post, k) == k \in post.keys

(***************************************************************************)
(* The loop of find_duplicates                                             *)
(***************************************************************************)
\* The records the for-loop can take next; loose tells whether the input may
\* hold records without date.
NextPosts(loose) ==
    IF pc # "loop" THEN {}
    ELSE IF call = 1
         THEN (IF i >= MaxPosts THEN {}
               ELSE IF loose THEN LooseRecords(i + 1) ELSE ExportRecords(i + 1))
         ELSE (IF i < Len(posts) THEN {posts[i + 1]} ELSE {})

Take(post) ==
    /\ i' = i + 1
    /\ posts' = IF call = 1 THEN Append(posts, post) ELSE posts
    /\ UNCHANGED <<call, first_result, header_vars, other_vars>>

\* line 36
IsContentDuplicate(post) == create_content_hash(post) \in DOMAIN seen_hashes

\* line 49
IsTitleDuplicate(post) ==
    /\ ~IsContentDuplicate(post)
    /\ title_key(post) # <<>>
    /\ title_key(post) \in DOMAIN seen_titles

\* Mutant: ">=" where line 52 has ">".
IsNewer_orEqual(post, original_post) ==
    ~str_gt(original_post.date, get_date(post))

\* Mutant: the comparison of line 52 turned round.
IsNewer_reversed(post, original_post) ==
    str_gt(original_post.date, get_date(post))

\* line 52
IsNewer(post, original_post) == str_gt(get_date(post), original_post.date)

\* the dictionary appended to duplicates (lines 38-45, 55-63, 68-76)
Entry(type, original_post, post, action) ==
    [type |-> type,
     original_id |-> original_post.id,
     original_date |-> original_post.date,
     duplicate_id |-> get_id(post),
     duplicate_date |-> get_date(post),
     title |-> title_key(post),
     action |-> action]

\* line 54: [p for p in unique_posts if p['id'] != original_post['id']]
RECURSIVE without_id(_, _)
without_id(ps, id) ==
    IF ps = <<>> THEN <<>>
    ELSE IF Head(ps).id # id THEN <<Head(ps)>> \o without_id(Tail(ps), id)
    ELSE without_id(Tail(ps), id)

\* Mutant: a content duplicate re-registers its fingerprint for itself.
ContentDuplicate_reregisters(post) ==
    LET original_post == seen_hashes[create_content_hash(post)] IN
    /\ IsContentDuplicate(post)
    /\ HasKey(original_post, "id") /\ HasKey(original_post, "date")
    /\ duplicates' = Append(duplicates,
                            Entry("content_duplicate", original_post, post, "none"))
    /\ seen_hashes' = (create_content_hash(post) :> post) @@ seen_hashes
    /\ UNCHANGED <<seen_titles, unique_posts, pc, raised>>
    /\ Take(post)

\* lines 36-46
ContentDuplicate(post) ==
    LET original_post == seen_hashes[create_content_hash(post)] IN
    /\ IsContentDuplicate(post)
    /\ HasKey(original_post, "id") /\ HasKey(original_post, "date")
    /\ duplicates' = Append(duplicates,
                            Entry("content_duplicate", original_post, post, "none"))
    /\ UNCHANGED <<seen_hashes, seen_titles, unique_posts, pc, raised>>
    /\ Take(post)

\* Mutant: the newer record takes the superseded record's place in the list.
TitleKeptNewer_inPlace(post) ==
    LET original_post == seen_titles[title_key(post)] IN
    /\ IsTitleDuplicate(post)
    /\ HasKey(original_post, "date")
    /\ IsNewer(post, original_post)
    /\ \A k \in 1..Len(unique_posts) : HasKey(unique_posts[k], "id")
    /\ HasKey(original_post, "id")
    /\ unique_posts' = [k \in 1..Len(unique_posts) |->
                          IF unique_posts[k].id = original_post.id
                          THEN post ELSE unique_posts[k]]
    /\ duplicates' = Append(duplicates,
                            Entry("title_duplicate", original_post, post, "kept_newer"))
    /\ seen_titles' = (title_key(post) :> post) @@ seen_titles
    /\ seen_hashes' = (create_content_hash(post) :> post) @@ seen_hashes
    /\ UNCHANGED <<pc, raised>>
    /\ Take(post)

\* Mutant: line 54 left out, the superseded record stays in the list.
TitleKeptNewer_noRemoval(post) ==
    LET original_post == seen_titles[title_key(post)] IN
    /\ IsTitleDuplicate(post)
    /\ HasKey(original_post, "date")
    /\ IsNewer(post, original_post)
    /\ HasKey(original_post, "id")
    /\ unique_posts' = Append(unique_posts, post)
    /\ duplicates' = Append(duplicates,
                            Entry("title_duplicate", original_post, post, "kept_newer"))
    /\ seen_titles' = (title_key(post) :> post) @@ seen_titles
    /\ seen_hashes' = (create_content_hash(post) :> post) @@ seen_hashes
    /\ UNCHANGED <<pc, raised>>
    /\ Take(post)

\* lines 49-66
TitleKeptNewer(post) ==
    LET original_post == seen_titles[title_key(post)] IN
    /\ IsTitleDuplicate(post)
    /\ HasKey(original_post, "date")
    /\ IsNewer(post, original_post)
    /\ \A k \in 1..Len(unique_posts) : HasKey(unique_posts[k], "id")
    /\ HasKey(original_post, "id")
    /\ unique_posts' = Append(without_id(unique_posts, original_post.id), post)
    /\ duplicates' = Append(duplicates,
                            Entry("title_duplicate", original_post, post, "kept_newer"))
    /\ seen_titles' = (title_key(post) :> post) @@ seen_titles
    /\ seen_hashes' = (create_content_hash(post) :> post) @@ seen_hashes
    /\ UNCHANGED <<pc, raised>>
    /\ Take(post)

\* lines 49-52, 67-76
TitleKeptOlder(post) ==
    LET original_post == seen_titles[title_key(post)] IN
    /\ IsTitleDuplicate(post)
    /\ HasKey(original_post, "date")
    /\ ~IsNewer(post, original_post)
    /\ HasKey(original_post, "id")
    /\ duplicates' = Append(duplicates,
                            Entry("title_duplicate", original_post, post, "kept_older"))
    /\ UNCHANGED <<seen_hashes, seen_titles, unique_posts, pc, raised>>
    /\ Take(post)

\* Mutant: line 79 left out: the fingerprint of a unique record is not
\* registered.
UniquePost_noHash(post) ==
    /\ ~IsContentDuplicate(post)
    /\ ~IsTitleDuplicate(post)
    /\ seen_titles' = IF title_key(post) # <<>>
                      THEN (title_key(post) :> post) @@ seen_titles
                      ELSE seen_titles
    /\ unique_posts' = Append(unique_posts, post)
    /\ UNCHANGED <<seen_hashes, duplicates, pc, raised>>
    /\ Take(post)

\* lines 77-82
UniquePost(post) ==
    /\ ~IsContentDuplicate(post)
    /\ ~IsTitleDuplicate(post)
    /\ seen_hashes' = (create_content_hash(post) :> post) @@ seen_hashes
    /\ seen_titles' = IF title_key(post) # <<>>
                      THEN (title_key(post) :> post) @@ seen_titles
                      ELSE seen_titles
    /\ unique_posts' = Append(unique_posts, post)
    /\ UNCHANGED <<duplicates, pc, raised>>
    /\ Take(post)

\* The key whose absence makes the body raise KeyError for this record, or
\* "none": the subscripts are evaluated in the order of lines 40-41, 52-57.
KeyErrorOf(post) ==
    IF IsContentDuplicate(post)
    THEN LET original_post == seen_hashes[create_content_hash(post)] IN
         IF ~HasKey(original_post, "id") THEN "id"
         ELSE IF ~HasKey(original_post, "date") THEN "date"
         ELSE "none"
    ELSE IF IsTitleDuplicate(post)
    THEN LET original_post == seen_titles[title_key(post)] IN
         IF ~HasKey(original_post, "date") THEN "date"
         ELSE IF ~HasKey(original_post, "id") THEN "id"
         ELSE IF IsNewer(post, original_post)
                 /\ \E k \in 1..Len(unique_posts) : ~HasKey(unique_posts[k], "id")
              THEN "id"
         ELSE "none"
    ELSE "none"

\* an uncaught KeyError leaves find_duplicates: nothing is returned
RaiseKeyError(post) ==
    /\ KeyErrorOf(post) # "none"
    /\ pc' = "raised"
    /\ raised' = KeyErrorOf(post)
    /\ UNCHANGED <<seen_hashes, seen_titles, unique_posts, duplicates>>
    /\ Take(post)

\* line 84: return unique_posts, duplicates
Return ==
    /\ pc = "loop"
    /\ IF call = 1 THEN i >= 1 ELSE i = Len(posts)
    /\ pc' = "returned"
    /\ first_result' = IF call = 1 THEN <<unique_posts, duplicates>> ELSE first_result
    /\ UNCHANGED <<posts, i, call, seen_hashes, seen_titles, duplicates,
                   unique_posts, raised, header_vars, other_vars>>

\* find_duplicates called on the unique list the first call returned
\* (lines 24-27: fresh tables, ledger and list)
CallAgain ==
    /\ pc = "returned" /\ call = 1
    /\ call' = 2
    /\ posts' = first_result[1]
    /\ i' = 0
    /\ pc' = "loop"
    /\ seen_hashes' = <<>>
    /\ seen_titles' = <<>>
    /\ duplicates' = <<>>
    /\ unique_posts' = <<>>
    /\ UNCHANGED <<first_result, raised, header_vars, other_vars>>

Init ==
    /\ posts = <<>>
    /\ i = 0
    /\ call = 1
    /\ pc = "loop"
    /\ seen_hashes = <<>>
    /\ seen_titles = <<>>
    /\ duplicates = <<>>
    /\ unique_posts = <<>>
    /\ first_result = <<>>
    /\ raised = "none"
    /\ fm_args = <<>>
    /\ has_yaml = TRUE
    /\ fm_pc = "idle"
    /\ fm_text = <<>>
    /\ fm_warned = FALSE
    /\ fm_returned = <<>>
    /\ IdleSanitize
    /\ IdleMarkdown
    /\ IdleProcess
    /\ IdleMain
    /\ IdleExcerpt

Next ==
    \/ \E post \in NextPosts(FALSE) : ContentDuplicate(post)
    \/ \E post \in NextPosts(FALSE) : TitleKeptNewer(post)
    \/ \E post \in NextPosts(FALSE) : TitleKeptOlder(post)
    \/ \E post \in NextPosts(FALSE) : UniquePost(post)
    \/ Return
    \/ CallAgain

Spec == Init /\ [][Next]_vars

\* The same pass over records that may lack their date.
NextLoose ==
    \/ \E post \in NextPosts(TRUE) : ContentDuplicate(post)
    \/ \E post \in NextPosts(TRUE) : TitleKeptNewer(post)
    \/ \E post \in NextPosts(TRUE) : TitleKeptOlder(post)
    \/ \E post \in NextPosts(TRUE) : UniquePost(post)
    \/ \E post \in NextPosts(TRUE) : RaiseKeyError(post)
    \/ Return

SpecLoose == Init /\ [][NextLoose]_vars

\* The n-th record of an input in which an id may come again or be absent:
\* the record carries one of two ids or none.
AnyIdRecords(n) ==
    { [keys |-> {"id", "date"}, id |-> d, title |-> t, content |-> c, date |-> e] :
        d \in 1..2, t \in {<<>>, <<"x">>, <<"X">>}, c \in {<<"a">>, <<"b">>},
        e \in {Jan, Jun} }
    \cup
    { [keys |-> {"date"}, id |-> NoneId, title |-> t, content |-> c, date |-> e] :
        t \in {<<>>, <<"x">>, <<"X">>}, c \in {<<"a">>, <<"b">>}, e \in {Jan, Jun} }

\* The records the for-loop can take next from such an input.
NextAnyIdPosts ==
    IF pc = "loop" /\ call = 1 /\ i < MaxPosts THEN AnyIdRecords(i + 1) ELSE {}

\* The same pass over records whose ids may come again or be absent.
NextAnyId ==
    \/ \E post \in NextAnyIdPosts : ContentDuplicate(post)
    \/ \E post \in NextAnyIdPosts : TitleKeptNewer(post)
    \/ \E post \in NextAnyIdPosts : TitleKeptOlder(post)
    \/ \E post \in NextAnyIdPosts : UniquePost(post)
    \/ \E post \in NextAnyIdPosts : RaiseKeyError(post)
    \/ Return

SpecAnyId == Init /\ [][NextAnyId]_vars

(***************************************************************************)
(* yaml_utils.py: text helpers.  A text is a sequence of one-character     *)
(* strings.                                                                *)
(***************************************************************************)
DQ == "\""
SQ == "'"
BS == "\\"

Chars(s) == {s[k] : k \in 1..Len(s)}

\* s[p..] starts with pat
StartsWithAt(s, pat, p) ==
    /\ p + Len(pat) - 1 <= Len(s)
    /\ \A k \in 1..Len(pat) : s[p + k - 1] = pat[k]

\* the text from position p on
From(s, p) == SubSeq(s, p, Len(s))

\* the first position q >= p with s[q] = c, or 0
IndexOf(s, c, p) ==
    LET hits == {q \in p..Len(s) : s[q] = c} IN
    IF hits = {} THEN 0 ELSE CHOOSE q \in hits : \A r \in hits : q <= r

\* the first position q >= p that holds no whitespace, Len(s) + 1 if none
SkipSpace(s, p) ==
    LET stops == {q \in p..Len(s) : s[q] \notin Whitespace} IN
    IF p > Len(s) \/ stops = {} THEN (IF p > Len(s) THEN p ELSE Len(s) + 1)
    ELSE CHOOSE q \in stops : \A r \in stops : q <= r

\* the number of occurrences of c in s
Count(s, c) == Cardinality({k \in 1..Len(s) : s[k] = c})

\* The character references html.unescape resolves that these texts can
\* hold: each "&" of a modelled text starts one of them.
Entities ==
    { <<(<<"&", "q", "u", "o", "t", ";">>), DQ>>,
      <<(<<"&", "#", "3", "9", ";">>), SQ>>,
      <<(<<"&", "a", "m", "p", ";">>), "&">>,
      <<(<<"&", "l", "t", ";">>), "<">>,
      <<(<<"&", "g", "t", ";">>), ">">> }

\* html.unescape (lines 27).  A reference holds no "&" after its first
\* character, so two references never overlap: the result keeps every
\* position that is not inside a reference, and a position that starts one
\* holds the character it stands for.
EntityAt(s, k) ==
    IF \E e \in Entities : StartsWithAt(s, e[1], k)
    THEN CHOOSE e \in Entities : StartsWithAt(s, e[1], k)
    ELSE <<(<<s[k]>>), s[k]>>

unescape(s) ==
    LET kept == {k \in 1..Len(s) :
                    \A j \in 1..(k - 1) : j + Len(EntityAt(s, j)[1]) <= k}
        nth(n) == CHOOSE k \in kept : Cardinality({j \in kept : j <= k}) = n IN
    [n \in 1..Cardinality(kept) |-> EntityAt(s, nth(n))[2]]

\* Mutant: line 41 without its first replace: only the quotes are escaped.
RECURSIVE escape_text_quotesOnly(_)
escape_text_quotesOnly(s) ==
    IF s = <<>> THEN <<>>
    ELSE IF Head(s) = DQ THEN <<BS, DQ>> \o escape_text_quotesOnly(Tail(s))
    ELSE <<Head(s)>> \o escape_text_quotesOnly(Tail(s))

\* line 41: text.replace('\\', '\\\\').replace('"', '\\"')
RECURSIVE escape_text(_)
escape_text(s) ==
    IF s = <<>> THEN <<>>
    ELSE IF Head(s) = BS THEN <<BS, BS>> \o escape_text(Tail(s))
    ELSE IF Head(s) = DQ THEN <<BS, DQ>> \o escape_text(Tail(s))
    ELSE <<Head(s)>> \o escape_text(Tail(s))

\* sanitize_yaml_string (lines 16-42)
sanitize_yaml_string(text) ==
    IF text = <<>> THEN <<>>
    ELSE LET t == strip(unescape(text)) IN
         IF DQ \in Chars(t) /\ SQ \notin Chars(t) THEN <<SQ>> \o t \o <<SQ>>
         ELSE IF SQ \in Chars(t) /\ DQ \notin Chars(t) THEN <<DQ>> \o t \o <<DQ>>
         ELSE <<DQ>> \o escape_text(t) \o <<DQ>>

(***************************************************************************)
(* sanitize_html_in_yaml (lines 45-67)                                     *)
(***************************************************************************)
\* "src" \s* "=" \s* at p: the position after it, or 0
SrcEqEnd(s, p) ==
    IF ~StartsWithAt(s, <<"s", "r", "c">>, p) THEN 0
    ELSE LET q == SkipSpace(s, p + 3) IN
         IF q <= Len(s) /\ s[q] = "=" THEN SkipSpace(s, q + 1) ELSE 0

\* line 53: re.sub(r'src\s*=\s*>', 'src="">', text)
RECURSIVE sub_src_gt(_, _)
sub_src_gt(s, p) ==
    IF p > Len(s) THEN <<>>
    ELSE LET e == SrcEqEnd(s, p) IN
         IF e # 0 /\ e <= Len(s) /\ s[e] = ">"
         THEN <<"s", "r", "c", "=", DQ, DQ, ">">> \o sub_src_gt(s, e + 1)
         ELSE <<s[p]>> \o sub_src_gt(s, p + 1)

\* line 54: re.sub(r'src\s*=\s*$', 'src=""', text)
RECURSIVE sub_src_end(_, _)
sub_src_end(s, p) ==
    IF p > Len(s) THEN <<>>
    ELSE IF SrcEqEnd(s, p) = Len(s) + 1
    THEN <<"s", "r", "c", "=", DQ, DQ>>
    ELSE <<s[p]>> \o sub_src_end(s, p + 1)

\* line 61: re.sub(r'="([^"]*)"', r"='\1'", tag)
RECURSIVE fix_html_quotes(_, _)
fix_html_quotes(tag, p) ==
    IF p > Len(tag) THEN <<>>
    ELSE LET q == IF StartsWithAt(tag, <<"=", DQ>>, p)
                  THEN IndexOf(tag, DQ, p + 2) ELSE 0 IN
         IF q # 0
         THEN <<"=", SQ>> \o SubSeq(tag, p + 2, q - 1) \o <<SQ>>
              \o fix_html_quotes(tag, q + 1)
         ELSE <<tag[p]>> \o fix_html_quotes(tag, p + 1)

\* line 65: re.sub(r'<[^>]+>', fix_html_quotes, text)
RECURSIVE sub_tags(_, _)
sub_tags(s, p) ==
    IF p > Len(s) THEN <<>>
    ELSE LET q == IF s[p] = "<" THEN IndexOf(s, ">", p + 1) ELSE 0 IN
         IF q >= p + 2
         THEN fix_html_quotes(SubSeq(s, p, q), 1) \o sub_tags(s, q + 1)
         ELSE <<s[p]>> \o sub_tags(s, p + 1)

sanitize_html_in_yaml(text) ==
    IF text = <<>> THEN <<>>
    ELSE sub_tags(sub_src_end(sub_src_gt(text, 1), 1), 1)

(***************************************************************************)
(* sanitize_markdown_links_in_yaml (lines 70-105)                          *)
(***************************************************************************)
\* \[([^\]]+)\]\( at p: the position of the "(", or 0
LinkOpen(s, p) ==
    IF p > Len(s) \/ s[p] # "[" THEN 0
    ELSE LET q == IndexOf(s, "]", p + 1) IN
         IF q >= p + 2 /\ q + 1 <= Len(s) /\ s[q + 1] = "(" THEN q + 1 ELSE 0

\* group 1 of a link whose "(" is at position o
LinkText(s, p, o) == SubSeq(s, p + 1, o - 2)

\* the last position of the run [^)]* that starts at p (p - 1 if empty)
RunEnd(s, p) ==
    LET c == IndexOf(s, ")", p) IN IF c = 0 THEN Len(s) ELSE c - 1

\* line 84: re.sub(r'\[([^\]]+)\]\([^\)]+\)', group 1, text)
RECURSIVE sub_complete_link(_, _)
sub_complete_link(s, p) ==
    IF p > Len(s) THEN <<>>
    ELSE LET o == LinkOpen(s, p)
             c == IF o = 0 THEN 0 ELSE IndexOf(s, ")", o + 1) IN
         IF c >= o + 2 /\ o # 0
         THEN LinkText(s, p, o) \o sub_complete_link(s, c + 1)
         ELSE <<s[p]>> \o sub_complete_link(s, p + 1)

\* the last position e in p..r with s[e-2..e] = "...", or 0
RECURSIVE LastDots(_, _, _)
LastDots(s, p, r) ==
    IF r < p + 2 THEN 0
    ELSE IF s[r] = "." /\ s[r - 1] = "." /\ s[r - 2] = "." THEN r
    ELSE LastDots(s, p, r - 1)

\* line 92: re.sub(r'\[([^\]]+)\]\([^)]*\.{3,}', group 1, text)
RECURSIVE sub_dotted_link(_, _)
sub_dotted_link(s, p) ==
    IF p > Len(s) THEN <<>>
    ELSE LET o == LinkOpen(s, p)
             e == IF o = 0 THEN 0 ELSE LastDots(s, o + 1, RunEnd(s, o + 1)) IN
         IF e # 0
         THEN LinkText(s, p, o) \o sub_dotted_link(s, e + 1)
         ELSE <<s[p]>> \o sub_dotted_link(s, p + 1)

\* line 93: re.sub(r'\[([^\]]+)\]\([^)]*$', group 1, text)
RECURSIVE sub_open_link(_, _)
sub_open_link(s, p) ==
    IF p > Len(s) THEN <<>>
    ELSE LET o == LinkOpen(s, p) IN
         IF o # 0 /\ RunEnd(s, o + 1) = Len(s)
         THEN LinkText(s, p, o)
         ELSE <<s[p]>> \o sub_open_link(s, p + 1)

\* line 96: re.sub(r'\[([^\]]+)\]\([^)]*', r'\1', text)
RECURSIVE sub_link_remnant(_, _)
sub_link_remnant(s, p) ==
    IF p > Len(s) THEN <<>>
    ELSE LET o == LinkOpen(s, p) IN
         IF o # 0
         THEN LinkText(s, p, o) \o sub_link_remnant(s, RunEnd(s, o + 1) + 1)
         ELSE <<s[p]>> \o sub_link_remnant(s, p + 1)

\* line 100: re.sub(r'\s+', ' ', text)
RECURSIVE collapse_space(_, _)
collapse_space(s, p) ==
    IF p > Len(s) THEN <<>>
    ELSE IF s[p] \in Whitespace
    THEN <<" ">> \o collapse_space(s, SkipSpace(s, p))
    ELSE <<s[p]>> \o collapse_space(s, p + 1)

sanitize_markdown_links_in_yaml(text) ==
    IF text = <<>> THEN <<>>
    ELSE strip(collapse_space(
             sub_link_remnant(
                 sub_open_link(
                     sub_dotted_link(
                         sub_complete_link(text, 1), 1), 1), 1), 1))

(***************************************************************************)
(* validate_yaml_front_matter (lines 134-184)                              *)
(***************************************************************************)
Marker == <<"-", "-", "-">>

\* the first position q >= p at which pat starts, or 0
FindAt(s, pat, p) ==
    LET hits == {q \in p..Len(s) : StartsWithAt(s, pat, q)} IN
    IF hits = {} THEN 0 ELSE CHOOSE q \in hits : \A r \in hits : q <= r

\* s.split('\n')
RECURSIVE split_lines(_)
split_lines(s) ==
    LET n == IndexOf(s, "\n", 1) IN
    IF n = 0 THEN <<s>>
    ELSE <<SubSeq(s, 1, n - 1)>> \o split_lines(From(s, n + 1))

\* lines 142-149, 168-175: front_matter_text.split('---', 2)[1].strip() for a
\* text that starts with the marker (split then gives at least two parts),
\* the text itself otherwise
yaml_content(text) ==
    IF StartsWithAt(text, Marker, 1)
    THEN LET b == FindAt(text, Marker, 4) IN
         strip(IF b = 0 THEN From(text, 4) ELSE SubSeq(text, 4, b - 1))
    ELSE text

\* lines 152-162: without PyYAML, a line that holds ":" must hold an even
\* number of each kind of quote
basic_line_ok(line) ==
    LET l == strip(line) IN
    (l # <<>> /\ ":" \in Chars(l))
    => (Count(l, DQ) % 2 = 0 /\ Count(l, SQ) % 2 = 0)

basic_validation(text) ==
    LET lines == split_lines(yaml_content(text)) IN
    \A k \in 1..Len(lines) : basic_line_ok(lines[k])

\* The escapes PyYAML's scanner accepts after a backslash in a double-quoted
\* scalar (x, u and U need hexadecimal digits after them, which no modelled
\* text supplies).
YamlEscapes ==
    {"0", "a", "b", "t", "\t", "n", "v", "f", "r", "e", " ", DQ, "/", BS,
     "N", "_", "L", "P"}

\* the position of the quote that closes a double-quoted scalar whose text
\* starts at p; 0 for an unknown escape or no closing quote on the line
RECURSIVE dq_end(_, _)
dq_end(s, p) ==
    IF p > Len(s) THEN 0
    ELSE IF s[p] = DQ THEN p
    ELSE IF s[p] = BS
    THEN (IF p + 1 <= Len(s) /\ s[p + 1] \in YamlEscapes
          THEN dq_end(s, p + 2) ELSE 0)
    ELSE dq_end(s, p + 1)

\* the same for a single-quoted scalar, in which '' stands for a quote
RECURSIVE sq_end(_, _)
sq_end(s, p) ==
    IF p > Len(s) THEN 0
    ELSE IF s[p] = SQ
    THEN (IF p + 1 <= Len(s) /\ s[p + 1] = SQ THEN sq_end(s, p + 2) ELSE p)
    ELSE sq_end(s, p + 1)

\* the closing quote of the quoted scalar that opens at p, or 0
quoted_end(s, p) ==
    IF p > Len(s) THEN 0
    ELSE IF s[p] = DQ THEN dq_end(s, p + 1)
    ELSE IF s[p] = SQ THEN sq_end(s, p + 1)
    ELSE 0

Blank(s) == Chars(s) \subseteq Whitespace

Digits == {"0", "1", "2", "3", "4", "5", "6", "7", "8", "9"}

\* a flow sequence of quoted scalars, read from p (after "[" or ",")
RECURSIVE flow_ok(_, _)
flow_ok(s, p) ==
    LET q == SkipSpace(s, p) IN
    IF q > Len(s) THEN FALSE
    ELSE IF s[q] = "]" THEN Blank(From(s, q + 1))
    ELSE LET e == quoted_end(s, q)
             n == SkipSpace(s, e + 1) IN
         IF e = 0 \/ n > Len(s) THEN FALSE
         ELSE IF s[n] = "," THEN flow_ok(s, n + 1)
         ELSE IF s[n] = "]" THEN Blank(From(s, n + 1))
         ELSE FALSE

\* the value of a "key: value" line: nothing, one quoted scalar, a flow
\* sequence of quoted scalars, or a plain number
yaml_value_ok(v) ==
    IF v = <<>> THEN TRUE
    ELSE IF v[1] \in {DQ, SQ}
    THEN LET e == quoted_end(v, 1) IN e # 0 /\ Blank(From(v, e + 1))
    ELSE IF v[1] = "[" THEN flow_ok(v, 2)
    ELSE Chars(v) \subseteq Digits

yaml_line_ok(line) ==
    LET c == IndexOf(line, ":", 1) IN
    /\ c > 1
    /\ c = Len(line) \/ line[c + 1] = " "
    /\ yaml_value_ok(lstrip(From(line, c + 1)))

\* line 178: yaml.safe_load(yaml_content) raises no error.  The texts this
\* module builds are block mappings of one-line "key: value" pairs; a
\* quoted scalar that does not close on its line runs into the next lines'
\* quotes and PyYAML rejects the document, so the document loads exactly
\* when every line does.
yaml_safe_load_ok(content) ==
    LET lines == split_lines(content) IN
    \A k \in 1..Len(lines) : yaml_line_ok(lines[k])

\* validate_yaml_front_matter(front_matter_text)[0], in the build with
\* PyYAML (HAS_YAML) and in the build without
validate_yaml_front_matter(text, HAS_YAML) ==
    IF HAS_YAML THEN yaml_safe_load_ok(yaml_content(text))
    ELSE basic_validation(text)

(***************************************************************************)
(* create_safe_front_matter (lines 187-246)                                *)
(***************************************************************************)
\* lines.join("\n")
RECURSIVE join_lines(_)
join_lines(lines) ==
    IF lines = <<>> THEN <<>>
    ELSE IF Len(lines) = 1 THEN lines[1]
    ELSE lines[1] \o <<"\n">> \o join_lines(Tail(lines))

\* ", ".join(items)
RECURSIVE join_comma(_)
join_comma(items) ==
    IF items = <<>> THEN <<>>
    ELSE IF Len(items) = 1 THEN items[1]
    ELSE items[1] \o <<",", " ">> \o join_comma(Tail(items))

K_title == <<"t", "i", "t", "l", "e", ":", " ">>
K_subtitle == <<"s", "u", "b", "t", "i", "t", "l", "e", ":", " ">>
K_category == <<"c", "a", "t", "e", "g", "o", "r", "y", ":", " ">>
K_tags == <<"t", "a", "g", "s", ":", " ">>
K_date == <<"d", "a", "t", "e", ":", " ">>
K_type == <<"t", "y", "p", "e", ":", " ">>
K_wordpress_id == <<"w", "o", "r", "d", "p", "r", "e", "s", "s", "_", "i", "d", ":", " ">>

\* lines 199-207
tags_yaml(is_list, tags) ==
    IF ~is_list \/ tags = <<>> THEN <<"[", "]">>
    ELSE <<"[">>
         \o join_comma([k \in 1..Len(tags) |-> sanitize_yaml_string(tags[k])])
         \o <<"]">>

\* lines 192-226.  The arguments: a.tags_is_list tells whether tags is a list
\* (isinstance, line 199), a.has_wordpress_id whether wordpress_id is not None,
\* a.wordpress_id is the text the f-string of line 222 gives for it.
front_matter_text(a) ==
    join_lines(
        << Marker,
           K_title \o sanitize_yaml_string(a.title),
           K_subtitle \o sanitize_yaml_string(
               sanitize_markdown_links_in_yaml(sanitize_html_in_yaml(a.subtitle))),
           K_category \o sanitize_yaml_string(a.category),
           K_tags \o tags_yaml(a.tags_is_list, a.tags),
           K_date \o sanitize_yaml_string(a.date),
           K_type \o sanitize_yaml_string(a.post_type) >>
        \o (IF a.has_wordpress_id
            THEN << K_wordpress_id \o a.wordpress_id >> ELSE << >>)
        \o << Marker, << >> >>)

\* Mutant: the fallback sanitizes the date as the full header does.
fallback_front_matter_sanitized(a) ==
    join_lines(
        << Marker,
           K_title \o <<DQ, "P", "o", "s", "t", " ", "T", "i", "t", "l", "e", DQ>>,
           K_subtitle \o <<DQ, DQ>>,
           K_category \o <<DQ, "u", "n", "c", "a", "t", "e", "g", "o", "r", "i", "z", "e", "d", DQ>>,
           K_tags \o <<"[", "]">>,
           K_date \o sanitize_yaml_string(a.date),
           K_type \o <<DQ>> \o a.post_type \o <<DQ>>,
           Marker, << >>, << >> >>)

\* lines 235-244
fallback_front_matter(a) ==
    join_lines(
        << Marker,
           K_title \o <<DQ, "P", "o", "s", "t", " ", "T", "i", "t", "l", "e", DQ>>,
           K_subtitle \o <<DQ, DQ>>,
           K_category \o <<DQ, "u", "n", "c", "a", "t", "e", "g", "o", "r", "i", "z", "e", "d", DQ>>,
           K_tags \o <<"[", "]">>,
           K_date \o <<DQ>> \o a.date \o <<DQ>>,
           K_type \o <<DQ>> \o a.post_type \o <<DQ>>,
           Marker, << >>, << >> >>)

\* lines 229-246: the text create_safe_front_matter returns
create_safe_front_matter(a, HAS_YAML) ==
    IF validate_yaml_front_matter(front_matter_text(a), HAS_YAML)
    THEN front_matter_text(a)
    ELSE fallback_front_matter(a)

(***************************************************************************)
(* html_to_markdown.py: the rewrites of strip_html_tags and                *)
(* html_to_markdown.  A rewrite is re.sub: the leftmost match is replaced  *)
(* and the scan goes on after it.  A match is written <<e, repl>>: e is    *)
(* the position after the match (0: no match here), repl what replaces it. *)
(***************************************************************************)
NoMatch == <<0, <<>>>>

Quotes == {DQ, SQ}

\* s[p..] starts with pat, letter case ignored (re.IGNORECASE); pat is in
\* lower case
IStartsWithAt(s, pat, p) ==
    /\ p >= 1
    /\ p + Len(pat) - 1 <= Len(s)
    /\ \A k \in 1..Len(pat) : lower_char(s[p + k - 1]) = pat[k]

\* the smallest element of a non-empty set of positions
MinOf(S) == CHOOSE q \in S : \A r \in S : q <= r
MaxOf(S) == CHOOSE q \in S : \A r \in S : q >= r

\* the first position q >= p at which pat starts, letter case ignored, or 0
IFindAt(s, pat, p) ==
    LET hits == {q \in p..Len(s) : IStartsWithAt(s, pat, q)} IN
    IF hits = {} THEN 0 ELSE MinOf(hits)

\* the first position q >= p that holds a quote, or 0
QuoteAt(s, p) ==
    LET hits == {q \in p..Len(s) : s[q] \in Quotes} IN
    IF hits = {} THEN 0 ELSE MinOf(hits)

\* <name[^>]*>(.*?)</name> at q: <<g, c, e>>, the position of the ">" that
\* ends the opening tag, the position of the closing tag and the position
\* after it; <<0, 0, 0>> if there is no match
ElementOf(s, q, name) ==
    IF ~IStartsWithAt(s, <<"<">> \o name, q) THEN <<0, 0, 0>>
    ELSE LET g == IndexOf(s, ">", q + 1 + Len(name))
             c == IF g = 0 THEN 0
                  ELSE IFindAt(s, <<"<", "/">> \o name \o <<">">>, g + 1) IN
         IF c = 0 THEN <<0, 0, 0>> ELSE <<g, c, c + Len(name) + 3>>

\* <(n1|n2|...)[^>]*>(.*?)</\1> at q: the first alternative that matches
RECURSIVE ElementAt(_, _, _)
ElementAt(s, q, names) ==
    IF names = <<>> THEN <<0, 0, 0>>
    ELSE LET m == ElementOf(s, q, Head(names)) IN
         IF m[3] # 0 THEN m ELSE ElementAt(s, q, Tail(names))

\* group 2 of an element match
Inner(s, m) == SubSeq(s, m[1] + 1, m[2] - 1)

\* <name[^>]*> at q (also <name[^>]*/?>): the position after it, or 0
OpenTagAt(s, q, name) ==
    IF ~IStartsWithAt(s, <<"<">> \o name, q) THEN 0
    ELSE LET g == IndexOf(s, ">", q + 1 + Len(name)) IN
         IF g = 0 THEN 0 ELSE g + 1

\* key=["']([^"']+)["'] read at h, where key is "href=" or "src=":
\* <<u1, u2>>, the first position of group 1 and the position of the quote
\* that ends it; <<0, 0>> if it does not match.  least is the least length
\* of the group (1 for +, 0 for * ).
AttrAt(s, h, key, least) ==
    IF ~IStartsWithAt(s, key, h) THEN <<0, 0>>
    ELSE LET o == h + Len(key) IN
         IF o > Len(s) \/ s[o] \notin Quotes THEN <<0, 0>>
         ELSE LET u2 == QuoteAt(s, o + 1) IN
              IF u2 = 0 \/ u2 - (o + 1) < least THEN <<0, 0>>
              ELSE <<o + 1, u2>>

\* the positions h > from, with no ">" in s[from..h-1], at which key is read
AttrStarts(s, from, key, least) ==
    LET stop == IndexOf(s, ">", from)
        last == IF stop = 0 THEN Len(s) ELSE stop - 1 IN
    {h \in from..(last + 1) : AttrAt(s, h, key, least)[1] # 0}

K_href == <<"h", "r", "e", "f", "=">>
K_src == <<"s", "r", "c", "=">>
K_alt == <<"a", "l", "t", "=">>

\* line 53: <a[^>]+href=["']([^"']+)["'][^>]*>(.*?)</a>  ->  [\2](\1)
\* [^>]+ is greedy: the last href= that lets the rest match is taken
LinkForHref(s, h) ==
    LET u == AttrAt(s, h, K_href, 1)
        g == IndexOf(s, ">", u[2] + 1)
        c == IF g = 0 THEN 0 ELSE IFindAt(s, <<"<", "/", "a", ">">>, g + 1) IN
    IF c = 0 THEN NoMatch
    ELSE << c + 4,
            <<"[">> \o SubSeq(s, g + 1, c - 1) \o <<"]", "(">>
            \o SubSeq(s, u[1], u[2] - 1) \o <<")">> >>

LinkAt(s, q) ==
    IF ~IStartsWithAt(s, <<"<", "a">>, q) THEN NoMatch
    ELSE LET hs == {h \in AttrStarts(s, q + 3, K_href, 1) :
                        q + 2 <= Len(s) /\ s[q + 2] # ">"
                        /\ LinkForHref(s, h)[1] # 0} IN
         IF hs = {} THEN NoMatch ELSE LinkForHref(s, MaxOf(hs))

\* line 56: <img[^>]+src=["']([^"']+)["'][^>]*alt=["']([^"']*)["'][^>]*/?>
\*   ->  ![\2](\1)
ImageAltFor(s, h) ==
    LET u == AttrAt(s, h, K_src, 1)
        as == {a \in AttrStarts(s, u[2] + 1, K_alt, 0) :
                  IndexOf(s, ">", AttrAt(s, a, K_alt, 0)[2] + 1) # 0} IN
    IF as = {} THEN NoMatch
    ELSE LET v == AttrAt(s, MaxOf(as), K_alt, 0) IN
         << IndexOf(s, ">", v[2] + 1) + 1,
            <<"!", "[">> \o SubSeq(s, v[1], v[2] - 1) \o <<"]", "(">>
            \o SubSeq(s, u[1], u[2] - 1) \o <<")">> >>

ImageAltAt(s, q) ==
    IF ~IStartsWithAt(s, <<"<", "i", "m", "g">>, q) THEN NoMatch
    ELSE LET hs == {h \in AttrStarts(s, q + 5, K_src, 1) :
                        q + 4 <= Len(s) /\ s[q + 4] # ">"
                        /\ ImageAltFor(s, h)[1] # 0} IN
         IF hs = {} THEN NoMatch ELSE ImageAltFor(s, MaxOf(hs))

\* line 57: <img[^>]+src=["']([^"']+)["'][^>]*/?>  ->  ![](\1)
ImageFor(s, h) ==
    LET u == AttrAt(s, h, K_src, 1)
        g == IndexOf(s, ">", u[2] + 1) IN
    IF g = 0 THEN NoMatch
    ELSE << g + 1,
            <<"!", "[", "]", "(">> \o SubSeq(s, u[1], u[2] - 1) \o <<")">> >>

ImageAt(s, q) ==
    IF ~IStartsWithAt(s, <<"<", "i", "m", "g">>, q) THEN NoMatch
    ELSE LET hs == {h \in AttrStarts(s, q + 5, K_src, 1) :
                        q + 4 <= Len(s) /\ s[q + 4] # ">"
                        /\ ImageFor(s, h)[1] # 0} IN
         IF hs = {} THEN NoMatch ELSE ImageFor(s, MaxOf(hs))

\* <!--.*?--> at q (line 15)
CommentAt(s, q) ==
    IF ~StartsWithAt(s, <<"<", "!", "-", "-">>, q) THEN NoMatch
    ELSE LET c == FindAt(s, <<"-", "-", ">">>, q + 4) IN
         IF c = 0 THEN NoMatch ELSE <<c + 3, <<>>>>

\* <[^>]+> at q (lines 21, 85)
AnyTagAt(s, q) ==
    IF q > Len(s) \/ s[q] # "<" THEN NoMatch
    ELSE LET g == IndexOf(s, ">", q + 1) IN
         IF g >= q + 2 THEN <<g + 1, <<>>>> ELSE NoMatch

\* the last position of the run of whitespace that starts at q
SpaceRunEnd(s, q) == SkipSpace(s, q) - 1

\* \s+ at q (line 24)
SpacesAt(s, q) ==
    IF q <= Len(s) /\ s[q] \in Whitespace
    THEN <<SpaceRunEnd(s, q) + 1, <<" ">>>> ELSE NoMatch

\* \n\s*\n\s*\n at q (line 88): a run of whitespace that starts with a
\* newline and holds three; the match ends with the last newline of the run
BlankLinesAt(s, q) ==
    IF q > Len(s) \/ s[q] # "\n" THEN NoMatch
    ELSE LET nl == {r \in q..SpaceRunEnd(s, q) : s[r] = "\n"} IN
         IF Cardinality(nl) >= 3 THEN <<MaxOf(nl) + 1, <<"\n", "\n">>>>
         ELSE NoMatch

\* [ \t]+ at q (line 89)
BlanksAt(s, q) ==
    IF q > Len(s) \/ s[q] \notin {" ", "\t"} THEN NoMatch
    ELSE LET stops == {r \in q..Len(s) : s[r] \notin {" ", "\t"}} IN
         << (IF stops = {} THEN Len(s) + 1 ELSE MinOf(stops)), <<" ">> >>

\* the tag names of the rewrites
N_script == <<"s", "c", "r", "i", "p", "t">>
N_style == <<"s", "t", "y", "l", "e">>
N_p == <<"p">>
N_br == <<"b", "r">>
N_strong == <<"s", "t", "r", "o", "n", "g">>
N_b == <<"b">>
N_em == <<"e", "m">>
N_i == <<"i">>
N_ul == <<"u", "l">>
N_ol == <<"o", "l">>
N_li == <<"l", "i">>
N_blockquote == <<"b", "l", "o", "c", "k", "q", "u", "o", "t", "e">>
N_pre == <<"p", "r", "e">>
N_code == <<"c", "o", "d", "e">>

\* a whole element replaced by before \o group \o after
Wrapped(s, m, before, after) ==
    IF m[3] = 0 THEN NoMatch ELSE <<m[3], before \o Inner(s, m) \o after>>

\* a tag replaced by repl
TagTo(e, repl) == IF e = 0 THEN NoMatch ELSE <<e, repl>>

\* the grave accent U+0060, which a TLA+ string cannot hold
Grave == "U+0060"

Fence == <<Grave, Grave, Grave>>

\* <pre[^>]*><code[^>]*>(.*?)</code></pre> at q (line 80)
PreCodeAt(s, q) ==
    LET o == OpenTagAt(s, q, N_pre)
        o2 == IF o = 0 THEN 0 ELSE OpenTagAt(s, o, N_code)
        c == IF o2 = 0 THEN 0
             ELSE IFindAt(s, <<"<", "/", "c", "o", "d", "e", ">",
                               "<", "/", "p", "r", "e", ">">>, o2) IN
    IF c = 0 THEN NoMatch
    ELSE <<c + 13, Fence \o <<"\n">> \o SubSeq(s, o2, c - 1) \o <<"\n">> \o Fence>>

\* the rewrites of strip_html_tags (lines 12, 15, 21, 24), by name
StripRuleAt(rule, s, q) ==
    CASE rule = "script_style" ->
             TagTo(ElementAt(s, q, <<N_script, N_style>>)[3], <<>>)
      [] rule = "comment" -> CommentAt(s, q)
      [] rule = "tag" -> AnyTagAt(s, q)
      [] rule = "spaces" -> SpacesAt(s, q)

\* re.sub(rule, repl, s) from position p on, for strip_html_tags
RECURSIVE strip_sub(_, _, _)
strip_sub(rule, s, p) ==
    LET hits == {q \in p..Len(s) : StripRuleAt(rule, s, q)[1] # 0} IN
    IF hits = {} THEN From(s, p)
    ELSE LET q == MinOf(hits)
             m == StripRuleAt(rule, s, q) IN
         SubSeq(s, p, q - 1) \o m[2] \o strip_sub(rule, s, m[1])

\* strip_html_tags (lines 9-27)
strip_html_tags(html) ==
    strip(strip_sub("spaces",
              strip_sub("tag",
                  unescape(strip_sub("comment",
                               strip_sub("script_style", html, 1), 1)), 1), 1))

\* <h([1-6])[^>]*>(.*?)</h\1> at q (line 38)  ->  '#' * level, ' ', and
\* group 2 through strip_html_tags
HeadingAt(s, q) ==
    LET levels == {d \in 1..6 :
                      ElementOf(s, q, <<"h", <<"1", "2", "3", "4", "5", "6">>[d]>>)[3] # 0} IN
    IF levels = {} THEN NoMatch
    ELSE LET d == MinOf(levels)
             m == ElementOf(s, q, <<"h", <<"1", "2", "3", "4", "5", "6">>[d]>>) IN
         <<m[3], [k \in 1..d |-> "#"] \o <<" ">> \o strip_html_tags(Inner(s, m))>>

\* the rewrites of html_to_markdown (lines 38-89), by name
RuleAt(rule, s, q) ==
    CASE rule = "heading" -> HeadingAt(s, q)
      [] rule = "p" -> Wrapped(s, ElementOf(s, q, N_p), <<>>, <<"\n", "\n">>)
      [] rule = "br" -> TagTo(OpenTagAt(s, q, N_br), <<"\n">>)
      [] rule = "bold" ->
             Wrapped(s, ElementAt(s, q, <<N_strong, N_b>>), <<"*", "*">>, <<"*", "*">>)
      [] rule = "italic" ->
             Wrapped(s, ElementAt(s, q, <<N_em, N_i>>), <<"*">>, <<"*">>)
      [] rule = "link" -> LinkAt(s, q)
      [] rule = "image_alt" -> ImageAltAt(s, q)
      [] rule = "image" -> ImageAt(s, q)
      [] rule = "ul_open" -> TagTo(OpenTagAt(s, q, N_ul), <<>>)
      [] rule = "ul_close" ->
             TagTo(IF IStartsWithAt(s, <<"<", "/", "u", "l", ">">>, q)
                   THEN q + 5 ELSE 0, <<"\n">>)
      [] rule = "li" -> Wrapped(s, ElementOf(s, q, N_li), <<"-", " ">>, <<>>)
      [] rule = "ol_open" -> TagTo(OpenTagAt(s, q, N_ol), <<>>)
      [] rule = "ol_close" ->
             TagTo(IF IStartsWithAt(s, <<"<", "/", "o", "l", ">">>, q)
                   THEN q + 5 ELSE 0, <<"\n">>)
      [] rule = "blockquote" ->
             Wrapped(s, ElementOf(s, q, N_blockquote), <<">", " ">>, <<>>)
      [] rule = "pre_code" -> PreCodeAt(s, q)
      [] rule = "pre" ->
             Wrapped(s, ElementOf(s, q, N_pre), Fence \o <<"\n">>, <<"\n">> \o Fence)
      [] rule = "code" -> Wrapped(s, ElementOf(s, q, N_code), <<Grave>>, <<Grave>>)
      [] rule = "tag" -> AnyTagAt(s, q)
      [] rule = "blank_lines" -> BlankLinesAt(s, q)
      [] rule = "blanks" -> BlanksAt(s, q)

\* re.sub(rule, repl, s) from position p on
RECURSIVE re_sub(_, _, _)
re_sub(rule, s, p) ==
    LET hits == {q \in p..Len(s) : RuleAt(rule, s, q)[1] # 0} IN
    IF hits = {} THEN From(s, p)
    ELSE LET q == MinOf(hits)
             m == RuleAt(rule, s, q) IN
         SubSeq(s, p, q - 1) \o m[2] \o re_sub(rule, s, m[1])

\* the rewrites of lines 38-89 in their order; the counter and
\* replace_ol_item of lines 69-74 are defined and never used
Rewrites ==
    << "heading", "p", "br", "bold", "italic", "link", "image_alt", "image",
       "ul_open", "ul_close", "li", "ol_open", "ol_close", "blockquote",
       "pre_code", "pre", "code", "tag", "blank_lines", "blanks" >>

RECURSIVE apply_rewrites(_, _)
apply_rewrites(content, k) ==
    IF k > Len(Rewrites) THEN content
    ELSE apply_rewrites(re_sub(Rewrites[k], content, 1), k + 1)

\* html_to_markdown (lines 29-92)
html_to_markdown(html) ==
    IF html = <<>> \/ strip(html) = <<>> THEN <<>>
    ELSE strip(apply_rewrites(unescape(html), 1))

(***************************************************************************)
(* process_posts.py: the functions process_all_posts calls for one record. *)
(* A record is written [shape, id, title, content, date]: shape tells      *)
(* what the JSON value is, an object with title.rendered and               *)
(* content.rendered ("object"), an object whose title is a plain string    *)
(* ("title_string"), or no object at all ("null"); title, content and date *)
(* are texts, id is the number of the record.                              *)
(***************************************************************************)
\* line 96: the least length of a converted body that is written
MinContentLength == 10

\* lines 56-59: the lines looked at for a subtitle, the least and the
\* greatest length of one
SubtitleLines == 3
SubtitleMinLength == 10
SubtitleMaxLength == 100

\* line 68, line 117: date_str[:10]
DatePrefixLength == 10

DigitValue(c) == CHOOSE n \in 0..9 : <<"0", "1", "2", "3", "4", "5", "6", "7", "8", "9">>[n + 1] = c

\* the number a run of digits writes
RECURSIVE NumberOf(_)
NumberOf(s) ==
    IF s = <<>> THEN 0
    ELSE 10 * NumberOf(SubSeq(s, 1, Len(s) - 1)) + DigitValue(s[Len(s)])

AllDigits(s) == \A k \in 1..Len(s) : s[k] \in Digits

DaysIn(year, month) ==
    IF month \in {4, 6, 9, 11} THEN 30
    ELSE IF month # 2 THEN 31
    ELSE IF year % 4 = 0 /\ (year % 100 # 0 \/ year % 400 = 0) THEN 29
    ELSE 28

\* s is YYYY-MM-DD, a day of the calendar
IsCalendarDate(s) ==
    /\ Len(s) = 10
    /\ s[5] = "-" /\ s[8] = "-"
    /\ AllDigits(SubSeq(s, 1, 4)) /\ AllDigits(SubSeq(s, 6, 7))
    /\ AllDigits(SubSeq(s, 9, 10))
    /\ NumberOf(SubSeq(s, 1, 4)) >= 1
    /\ NumberOf(SubSeq(s, 6, 7)) \in 1..12
    /\ NumberOf(SubSeq(s, 9, 10)) \in
           1..DaysIn(NumberOf(SubSeq(s, 1, 4)), NumberOf(SubSeq(s, 6, 7)))

\* s is HH:MM:SS, a time of the day
IsClockTime(s) ==
    /\ Len(s) = 8
    /\ s[3] = ":" /\ s[6] = ":"
    /\ AllDigits(SubSeq(s, 1, 2)) /\ AllDigits(SubSeq(s, 4, 5))
    /\ AllDigits(SubSeq(s, 7, 8))
    /\ NumberOf(SubSeq(s, 1, 2)) <= 23
    /\ NumberOf(SubSeq(s, 4, 5)) <= 59
    /\ NumberOf(SubSeq(s, 7, 8)) <= 59

\* datetime.fromisoformat(date_str) returns (lines 65, 114), for the two
\* forms a WordPress export writes, YYYY-MM-DD and YYYY-MM-DDTHH:MM:SS;
\* any other text of the model makes it raise ValueError
fromisoformat_ok(date_str) ==
    \/ IsCalendarDate(date_str)
    \/ /\ Len(date_str) = 19
       /\ IsCalendarDate(SubSeq(date_str, 1, 10))
       /\ date_str[11] = "T"
       /\ IsClockTime(SubSeq(date_str, 12, 19))

\* s[:n]
Prefix(s, n) == SubSeq(s, 1, IF Len(s) < n THEN Len(s) ELSE n)

\* lines 62-70: formatted_date
formatted_date(date_str) ==
    IF date_str = <<>> THEN <<>> ELSE Prefix(date_str, DatePrefixLength)

UnknownDate == <<"u", "n", "k", "n", "o", "w", "n", "-", "d", "a", "t", "e">>

\* lines 110-119: date_prefix
date_prefix(date_str) ==
    IF date_str = <<>> THEN UnknownDate
    ELSE IF fromisoformat_ok(date_str) THEN Prefix(date_str, DatePrefixLength)
    ELSE IF Len(date_str) >= DatePrefixLength
         THEN Prefix(date_str, DatePrefixLength)
    ELSE UnknownDate

\* \w of the re module, for the ASCII characters of the model
WordChars ==
    {UpperCase[k] : k \in 1..26} \cup {LowerCase[k] : k \in 1..26}
    \cup Digits \cup {"_"}

\* the characters of s that are in keep
Keep(s, keep) ==
    LET kept == {k \in 1..Len(s) : s[k] \in keep}
        nth(n) == CHOOSE k \in kept : Cardinality({j \in kept : j <= k}) = n IN
    [n \in 1..Cardinality(kept) |-> s[nth(n)]]

\* every run of at least least characters of class replaced by one "-"
\* (line 26: [-\s]+, yaml_utils.py line 117: [-_]{2,})
Hyphenate(s, class, least) ==
    LET runlen(k) ==
            LET stops == {q \in k..Len(s) : s[q] \notin class} IN
            (IF stops = {} THEN Len(s) + 1 ELSE MinOf(stops)) - k
        \* the positions a run starts at
        starts == {k \in 1..Len(s) :
                      s[k] \in class /\ (k = 1 \/ s[k - 1] \notin class)}
        long == {k \in starts : runlen(k) >= least}
        inlong(k) == \E q \in long : q < k /\ k < q + runlen(q)
        kept == {k \in 1..Len(s) : ~inlong(k)}
        nth(n) == CHOOSE k \in kept : Cardinality({j \in kept : j <= k}) = n IN
    [n \in 1..Cardinality(kept) |->
        IF nth(n) \in long THEN "-" ELSE s[nth(n)]]

\* str.strip('-')
RECURSIVE strip_hyphens(_)
strip_hyphens(s) ==
    IF s # <<>> /\ Head(s) = "-" THEN strip_hyphens(Tail(s))
    ELSE IF s # <<>> /\ s[Len(s)] = "-"
    THEN strip_hyphens(SubSeq(s, 1, Len(s) - 1))
    ELSE s

Untitled == <<"u", "n", "t", "i", "t", "l", "e", "d">>

\* slugify (lines 15-31); the texts of the model are ASCII, which lines
\* 21-22 leave as they are
slugify(text) ==
    IF text = <<>> THEN Untitled
    ELSE LET t == strip_hyphens(
                      Hyphenate(Keep(lower(text), WordChars \cup Whitespace \cup {"-"}),
                                Whitespace \cup {"-"}, 1)) IN
         IF t = <<>> THEN Untitled ELSE t

DotMd == <<".", "m", "d">>

\* str.replace(old, ''): every occurrence of old, left to right, removed
RECURSIVE remove_all(_, _)
remove_all(s, old) ==
    LET q == FindAt(s, old, 1) IN
    IF q = 0 THEN s
    ELSE SubSeq(s, 1, q - 1) \o remove_all(From(s, q + Len(old)), old)

\* sanitize_filename (yaml_utils.py lines 108-131)
sanitize_filename(filename) ==
    IF filename = <<>> THEN Untitled \o DotMd
    ELSE LET a == Hyphenate(remove_all(filename, DotMd), {"-", "_"}, 2)
             b == [k \in 1..Len(a) |->
                      IF a[k] \in WordChars \cup {"-", "."} THEN a[k] ELSE "-"]
             c == strip_hyphens(b) IN
         (IF c = <<>> THEN Untitled ELSE c) \o DotMd

\* create_filename (lines 107-129)
create_filename(post) ==
    sanitize_filename(
        date_prefix(post.date) \o <<"-">>
        \o (IF post.title # <<>> THEN slugify(post.title) ELSE Untitled)
        \o DotMd)

\* lines 161-168: the name the document is written under in a directory
\* that holds the names in taken
Numerals ==
    << <<"1">>, <<"2">>, <<"3">>, <<"4">>, <<"5">>, <<"6">>, <<"7">>, <<"8">>,
       <<"9">> >>

Suffixed(original_filename, counter) ==
    remove_all(original_filename, DotMd) \o <<"-">> \o Numerals[counter] \o DotMd

\* Mutant: lines 164-168 left out: the name is used whether or not a file
\* has it.
free_filename_unchecked(filename, taken) == filename

free_filename(filename, taken) ==
    IF filename \notin taken THEN filename
    ELSE Suffixed(filename,
                  MinOf({c \in 1..Len(Numerals) : Suffixed(filename, c) \notin taken}))

DefaultTitle == <<"U", "n", "t", "i", "t", "l", "e", "d">>
DefaultCategory == <<"u", "n", "c", "a", "t", "e", "g", "o", "r", "i", "z", "e", "d">>
Dots == <<".", ".", ".">>

\* lines 54-60: subtitle
subtitle_of(markdown_content) ==
    LET l == split_lines(markdown_content)
        n == IF Len(l) < SubtitleLines THEN Len(l) ELSE SubtitleLines
        good == {k \in 1..n :
                    /\ strip(l[k]) # <<>>
                    /\ Head(strip(l[k])) # "#"
                    /\ Len(strip(l[k])) > SubtitleMinLength} IN
    IF good = {} THEN <<>>
    ELSE LET line == strip(l[MinOf(good)]) IN
         IF Len(line) > SubtitleMaxLength
         THEN SubSeq(line, 1, SubtitleMaxLength) \o Dots ELSE line

\* Mutant: lines 50-51 left out: an empty title stays empty.
front_matter_args_noDefault(post, markdown_content) ==
    [title |-> strip(post.title),
     subtitle |-> subtitle_of(markdown_content),
     category |-> DefaultCategory,
     tags_is_list |-> TRUE,
     tags |-> <<>>,
     date |-> formatted_date(post.date),
     post_type |-> <<"w", "p">>,
     has_wordpress_id |-> TRUE,
     wordpress_id |-> Numerals[post.id]]

\* create_front_matter (lines 47-84): the arguments it hands to
\* create_safe_front_matter; the records of the model carry no categories
\* and no tags (lines 38, 45)
front_matter_args(post, markdown_content) ==
    [title |-> IF strip(post.title) = <<>> THEN DefaultTitle ELSE strip(post.title),
     subtitle |-> subtitle_of(markdown_content),
     category |-> DefaultCategory,
     tags_is_list |-> TRUE,
     tags |-> <<>>,
     date |-> formatted_date(post.date),
     post_type |-> <<"w", "p">>,
     has_wordpress_id |-> TRUE,
     wordpress_id |-> Numerals[post.id]]

create_front_matter(post, markdown_content, HAS_YAML) ==
    create_safe_front_matter(front_matter_args(post, markdown_content), HAS_YAML)

\* line 103: front_matter + markdown_content
full_content(front_matter, markdown_content) == front_matter \o markdown_content

\* what a call returns or does: [kind, text], kind "none" (None returned),
\* "content" (text returned) or "raise" (AttributeError)
Outcome(kind, text) == [kind |-> kind, text |-> text]

\* lines 99-105, markdown_content being what line 94 returned: the header is
\* made (line 49 raises AttributeError on a title that is a plain string) and
\* put before the text
with_front_matter(post, markdown_content, HAS_YAML) ==
    IF post.shape = "title_string" THEN Outcome("raise", <<>>)
    ELSE Outcome("content",
                 full_content(create_front_matter(post, markdown_content, HAS_YAML),
                              markdown_content))

\* lines 96-105, markdown_content being what line 94 returned
checked_content(post, markdown_content, HAS_YAML) ==
    IF Len(strip(markdown_content)) < MinContentLength
    THEN Outcome("none", <<>>)
    ELSE with_front_matter(post, markdown_content, HAS_YAML)

\* Mutant: lines 96-97 left out: a converted body of any length is kept.
process_post_content_anyLength(post, HAS_YAML) ==
    IF post.shape = "null" THEN Outcome("raise", <<>>)
    ELSE IF strip(post.content) = <<>> THEN Outcome("none", <<>>)
    ELSE with_front_matter(post, html_to_markdown(post.content), HAS_YAML)

\* process_post_content (lines 86-105)
process_post_content(post, HAS_YAML) ==
    IF post.shape = "null" THEN Outcome("raise", <<>>)
    ELSE IF strip(post.content) = <<>> THEN Outcome("none", <<>>)
    ELSE checked_content(post, html_to_markdown(post.content), HAS_YAML)

\* line 180: post.get('id', 'unknown') in the handler raises in its turn
\* when the record is no object
handler_raises(post) == post.shape = "null"

(***************************************************************************)
(* One call of create_safe_front_matter, in either build.                  *)
(***************************************************************************)
\* Longest title and date text drawn from Alphabet.
MaxStrLen == 2

\* the characters the quoting rule of sanitize_yaml_string tells apart
Alphabet == {DQ, SQ, BS}

RECURSIVE Strings(_)
Strings(n) ==
    IF n = 0 THEN {<<>>}
    ELSE Strings(n - 1)
         \cup {Append(t, c) : t \in {u \in Strings(n - 1) : Len(u) = n - 1},
                              c \in Alphabet}

\* an HTML tag with a quoted attribute, a markdown link, a text that holds
\* the marker
TagSyntax == <<"<", "q", " ", "q", "=", DQ, "q", DQ, ">">>
LinkSyntax == <<"[", "q", "]", "(", "q", ")">>
MarkerInside == <<"q", "-", "-", "-", "q">>

HeaderTitles ==
    Strings(MaxStrLen) \cup {<<"q">>, TagSyntax, LinkSyntax, MarkerInside}
HeaderDates == Strings(MaxStrLen) \cup {<<"2", "0", "2", "0", "-", "0", "1", "-", "0", "1">>}
Subtitles == {<<>>, TagSyntax, LinkSyntax}
Categories == {<<>>, <<SQ, BS>>}
TagLists == {<<>>, <<(<<"q">>)>>, <<(<<>>), (<<"q">>)>>}
PostTypes == {<<"w", "p">>, <<DQ>>}

HeaderArgs ==
    [title : HeaderTitles, subtitle : Subtitles, category : Categories,
     tags_is_list : {TRUE}, tags : TagLists, date : HeaderDates,
     post_type : PostTypes, has_wordpress_id : {TRUE},
     wordpress_id : {<<"7">>}]
    \cup
    [title : HeaderTitles, subtitle : Subtitles, category : Categories,
     tags_is_list : {FALSE}, tags : {<<>>}, date : HeaderDates,
     post_type : PostTypes, has_wordpress_id : {FALSE},
     wordpress_id : {<<>>}]

InitHeader ==
    /\ posts = <<>>
    /\ i = 0
    /\ call = 1
    /\ pc = "loop"
    /\ seen_hashes = <<>>
    /\ seen_titles = <<>>
    /\ duplicates = <<>>
    /\ unique_posts = <<>>
    /\ first_result = <<>>
    /\ raised = "none"
    /\ fm_args \in HeaderArgs
    /\ has_yaml \in BOOLEAN
    /\ fm_pc = "called"
    /\ fm_text = <<>>
    /\ fm_warned = FALSE
    /\ fm_returned = <<>>
    /\ IdleSanitize
    /\ IdleMarkdown
    /\ IdleProcess
    /\ IdleMain
    /\ IdleExcerpt

\* lines 192-226: sanitize the fields and join the lines
Assemble ==
    /\ fm_pc = "called"
    /\ fm_pc' = "built"
    /\ fm_text' = front_matter_text(fm_args)
    /\ UNCHANGED <<fm_args, has_yaml, fm_warned, fm_returned, dedupe_vars, other_vars>>

\* lines 229-230, 246: the text validates and is returned
ReturnFrontMatter ==
    /\ fm_pc = "built"
    /\ validate_yaml_front_matter(fm_text, has_yaml)
    /\ fm_pc' = "returned"
    /\ fm_returned' = fm_text
    /\ UNCHANGED <<fm_args, has_yaml, fm_text, fm_warned, dedupe_vars, other_vars>>

\* lines 229-244: the text does not validate; a warning is printed and the
\* fallback is returned
ReturnFallback ==
    /\ fm_pc = "built"
    /\ ~validate_yaml_front_matter(fm_text, has_yaml)
    /\ fm_pc' = "returned"
    /\ fm_warned' = TRUE
    /\ fm_returned' = fallback_front_matter(fm_args)
    /\ UNCHANGED <<fm_args, has_yaml, fm_text, dedupe_vars, other_vars>>

NextHeader ==
    \/ Assemble
    \/ ReturnFrontMatter
    \/ ReturnFallback

SpecHeader == InitHeader /\ [][NextHeader]_vars

(***************************************************************************)
(* One call of sanitize_yaml_string.                                       *)
(***************************************************************************)
\* Longest argument, counted in the pieces of SanitizePieces.
MaxPieces == 3

\* a plain character, the two quotes, the backslash, a blank, and the
\* character references of the two quotes
SanitizePieces ==
    { <<"q">>, <<DQ>>, <<SQ>>, <<BS>>, <<" ">>,
      <<"&", "q", "u", "o", "t", ";">>, <<"&", "#", "3", "9", ";">> }

\* the texts made of n pieces
RECURSIVE PieceTexts(_)
PieceTexts(n) ==
    IF n = 0 THEN {<<>>}
    ELSE {t \o piece : t \in PieceTexts(n - 1), piece \in SanitizePieces}

SanitizeArgs == UNION {PieceTexts(n) : n \in 0..MaxPieces}

InitSanitize ==
    /\ IdleDedupe
    /\ IdleHeader /\ has_yaml = TRUE
    /\ sy_text \in SanitizeArgs
    /\ sy_pc = "called"
    /\ sy_result = <<>>
    /\ IdleMarkdown
    /\ IdleProcess
    /\ IdleMain
    /\ IdleExcerpt

\* lines 16-42
Sanitize ==
    /\ sy_pc = "called"
    /\ sy_pc' = "returned"
    /\ sy_result' = sanitize_yaml_string(sy_text)
    /\ UNCHANGED <<sy_text, dedupe_vars, header_vars, markdown_vars, process_vars,
                   main_vars, excerpt_vars>>

NextSanitize == Sanitize

SpecSanitize == InitSanitize /\ [][NextSanitize]_vars

(***************************************************************************)
(* One call of html_to_markdown.  The argument is written from at most     *)
(* MaxBlocks blocks; the text of a script block, a style block or a        *)
(* comment is made of letters no other block holds.                        *)
(***************************************************************************)
ItemNames == <<"a", "b", "c", "d">>

\* the item texts of a list of n items
ListItems(n) == [k \in 1..n |-> <<ItemNames[k]>>]

HiddenTexts == {<<"z">>, <<"y", ">", "z">>}

HiddenChars == {"y", "z"}

Block(kind, text, items, sep) ==
    [kind |-> kind, text |-> text, items |-> items, sep |-> sep]

HtmlBlocks ==
    {Block(k, <<"t">>, <<>>, <<>>) : k \in {"text", "p", "bold"}}
    \cup {Block(k, h, <<>>, <<>>) :
              k \in {"script", "style", "comment", "heading"}, h \in HiddenTexts}
    \cup {Block(k, <<>>, ListItems(n), sep) :
              k \in {"ul", "ol"}, n \in 1..MaxItems, sep \in {<<>>, <<"\n">>}}

\* <name>inner</name>
Element(name, inner) ==
    <<"<">> \o name \o <<">">> \o inner \o <<"<", "/">> \o name \o <<">">>

RECURSIVE ItemsHtml(_, _)
ItemsHtml(items, sep) ==
    IF items = <<>> THEN <<>>
    ELSE Element(N_li, Head(items)) \o sep \o ItemsHtml(Tail(items), sep)

\* the markup of a block
BlockHtml(b) ==
    CASE b.kind = "text" -> b.text
      [] b.kind = "p" -> Element(N_p, b.text)
      [] b.kind = "bold" -> Element(N_b, b.text)
      [] b.kind = "script" -> Element(N_script, b.text)
      [] b.kind = "style" -> Element(N_style, b.text)
      [] b.kind = "comment" -> <<"<", "!", "-", "-">> \o b.text \o <<"-", "-", ">">>
      [] b.kind = "heading" ->
             Element(<<"h", "1">>, <<"t">> \o Element(N_script, b.text))
      [] b.kind = "ul" -> Element(N_ul, b.sep \o ItemsHtml(b.items, b.sep))
      [] b.kind = "ol" -> Element(N_ol, b.sep \o ItemsHtml(b.items, b.sep))

RECURSIVE BlocksHtml(_)
BlocksHtml(bs) ==
    IF bs = <<>> THEN <<>> ELSE BlockHtml(Head(bs)) \o BlocksHtml(Tail(bs))

Documents == UNION {[1..n -> HtmlBlocks] : n \in 0..MaxBlocks}

InitMarkdown ==
    /\ IdleDedupe
    /\ IdleHeader
    /\ has_yaml = TRUE
    /\ IdleSanitize
    /\ md_blocks \in Documents
    /\ md_html = BlocksHtml(md_blocks)
    /\ md_pc = "called"
    /\ md_content = <<>>
    /\ IdleProcess
    /\ IdleMain
    /\ IdleExcerpt

\* html_to_markdown(html) runs and returns
Convert ==
    /\ md_pc = "called"
    /\ md_pc' = "returned"
    /\ md_content' = html_to_markdown(md_html)
    /\ UNCHANGED <<md_blocks, md_html, dedupe_vars, header_vars, sanitize_vars,
                   process_vars, main_vars, excerpt_vars>>

NextMarkdown == Convert

SpecMarkdown == InitMarkdown /\ [][NextMarkdown]_vars

(***************************************************************************)
(* One run of process_all_posts (process_posts.py lines 131-186), in       *)
(* either build.  The n-th record of the input is drawn when the loop      *)
(* takes it.                                                               *)
(***************************************************************************)
Record(shape, id, title, content, date) ==
    [shape |-> shape, id |-> id, title |-> title, content |-> content,
     date |-> date]

TitleA == <<"A">>
\* a body whose converted text has MinContentLength characters, and one
\* whose converted text has one less
Body10 == <<"<", "p", ">", "1", "2", "3", "4", "5", "6", "7", "8", "9", "0", "<", "/", "p", ">">>
Body9 == <<"<", "p", ">", "1", "2", "3", "4", "5", "6", "7", "8", "9", "<", "/", "p", ">">>
DateTime == <<"2", "0", "2", "0", "-", "0", "1", "-", "0", "1", "T", "1", "0", ":", "0", "0", ":", "0", "0">>

RecordTitles == {<<>>, <<" ">>, TitleA, <<"a">>, <<"A", " ", "1">>}
RecordDates == {<<>>, <<"b", "a", "d">>, <<"2", "0", "2", "0", "-", "0", "1", "-", "0", "1">>}
RecordBodies == {<<>>, <<" ", " ">>, Body9, <<"<", "b", "r", ">">>}

\* the values the n-th record of the input can have
ProcessRecords(n) ==
    {Record("object", n, t, Body10, DateTime) : t \in RecordTitles}
    \cup {Record("object", n, TitleA, Body10, d) : d \in RecordDates}
    \cup {Record("object", n, TitleA, b, DateTime) : b \in RecordBodies}
    \cup {Record("title_string", n, TitleA, Body10, DateTime),
          Record("null", n, <<>>, <<>>, <<>>)}

\* what an earlier run left in output_dir
OldFile == [writer |-> 0, text |-> <<"o", "l", "d">>]
OldFiles == (<<"2", "0", "2", "0", "-", "0", "1", "-", "0", "1", "-", "a", ".", "m", "d">> :> OldFile) @@ (<<"2", "0", "2", "0", "-", "0", "1", "-", "0", "1", "-", "a", "-", "1", ".", "m", "d">> :> OldFile)

InitProcess ==
    /\ IdleDedupe
    /\ IdleHeader
    /\ has_yaml \in BOOLEAN
    /\ IdleSanitize
    /\ IdleMarkdown
    /\ pp_pc = "start"
    /\ pp_readable \in BOOLEAN
    /\ pp_n \in 0..MaxRecords
    /\ pp_readable = FALSE => pp_n = 0
    /\ pp_i = 0
    /\ pp_post = <<>>
    /\ pp_content = <<>>
    /\ files \in {<<>>, OldFiles}
    /\ output_dir \in BOOLEAN
    /\ files # <<>> => output_dir
    /\ written = <<>>
    /\ processed_count = 0
    /\ skipped_count = 0
    /\ IdleMain
    /\ IdleExcerpt

process_unchanged == <<dedupe_vars, header_vars, sanitize_vars, markdown_vars,
                       main_vars, excerpt_vars>>

\* lines 133-139: the directory is made and its *.md files are removed
RemoveExisting ==
    /\ pp_pc = "start"
    /\ pp_pc' = "load"
    /\ output_dir' = TRUE
    /\ files' = <<>>
    /\ UNCHANGED <<pp_readable, pp_n, pp_i, pp_post, pp_content, written,
                   processed_count, skipped_count, process_unchanged>>

\* lines 142-146: the input is loaded and the counts start at 0
LoadInput ==
    /\ pp_pc = "load"
    /\ pp_readable
    /\ pp_pc' = "loop"
    /\ processed_count' = 0
    /\ skipped_count' = 0
    /\ UNCHANGED <<pp_readable, pp_n, pp_i, pp_post, pp_content, files, output_dir,
                   written,
                   process_unchanged>>

\* lines 142-143: open() or json.load() raises and the call ends with it
LoadInputFails ==
    /\ pp_pc = "load"
    /\ ~pp_readable
    /\ pp_pc' = "raised"
    /\ UNCHANGED <<pp_readable, pp_n, pp_i, pp_post, pp_content, files, output_dir,
                   written,
                   processed_count, skipped_count, process_unchanged>>

\* lines 148-151: the loop takes the next record and calls
\* process_post_content on it
TakePost(post) ==
    /\ pp_pc = "loop"
    /\ pp_i < pp_n
    /\ pp_pc' = "body"
    /\ pp_i' = pp_i + 1
    /\ pp_post' = post
    /\ pp_content' = process_post_content(post, has_yaml)
    /\ UNCHANGED <<pp_readable, pp_n, files, output_dir, written, processed_count,
                   skipped_count, process_unchanged>>

\* what the rest of the loop body leaves alone
body_unchanged == <<pp_readable, pp_n, pp_i, pp_post, pp_content,
                    process_unchanged>>

\* lines 153-155: no content, the record is skipped
SkipPost ==
    /\ pp_pc = "body"
    /\ pp_content.kind = "none"
    /\ pp_pc' = "loop"
    /\ skipped_count' = skipped_count + 1
    /\ UNCHANGED <<files, output_dir, written, processed_count, body_unchanged>>

\* lines 157-174: the document is written under a name no file has
WritePost ==
    LET original_filename == create_filename(pp_post)
        filename == free_filename(original_filename, DOMAIN files) IN
    /\ pp_pc = "body"
    /\ pp_content.kind = "content"
    /\ pp_pc' = "loop"
    /\ files' = (filename :> [writer |-> pp_post.id, text |-> pp_content.text])
                @@ files
    /\ written' = Append(written, [post |-> pp_post.id,
                                   base |-> original_filename,
                                   name |-> filename])
    /\ processed_count' = processed_count + 1
    /\ UNCHANGED <<output_dir, skipped_count, body_unchanged>>

\* lines 179-181: an exception of the body is caught, the record is skipped
CatchError ==
    /\ pp_pc = "body"
    /\ pp_content.kind = "raise"
    /\ ~handler_raises(pp_post)
    /\ pp_pc' = "loop"
    /\ skipped_count' = skipped_count + 1
    /\ UNCHANGED <<files, output_dir, written, processed_count, body_unchanged>>

\* line 180: the handler raises, the exception leaves the loop and the call
HandlerRaises ==
    /\ pp_pc = "body"
    /\ pp_content.kind = "raise"
    /\ handler_raises(pp_post)
    /\ pp_pc' = "raised"
    /\ UNCHANGED <<files, output_dir, written, processed_count, skipped_count,
                   body_unchanged>>

\* lines 183-186: the loop is over, the counts are printed
ReturnProcess ==
    /\ pp_pc = "loop"
    /\ pp_i = pp_n
    /\ pp_pc' = "returned"
    /\ UNCHANGED <<pp_readable, pp_n, pp_i, pp_post, pp_content, files, output_dir,
                   written,
                   processed_count, skipped_count, process_unchanged>>

NextProcess ==
    \/ RemoveExisting
    \/ LoadInput
    \/ LoadInputFails
    \/ \E post \in ProcessRecords(pp_i + 1) : TakePost(post)
    \/ SkipPost
    \/ WritePost
    \/ CatchError
    \/ HandlerRaises
    \/ ReturnProcess

SpecProcess == InitProcess /\ [][NextProcess]_vars

(***************************************************************************)
(* One run of main() (main.py lines 156-215).  Step 1 loads the export,    *)
(* runs the loop of find_duplicates on it and saves the report and the     *)
(* clean records; step 2 runs process_all_posts on the clean records.      *)
(***************************************************************************)
\* the values the n-th record of the export can have
MainRecords(n) ==
    { [keys |-> {"id", "date"}, id |-> n, title |-> t, content |-> c, date |-> d] :
        t \in {<<"x">>, <<"X">>}, c \in {<<"a">>, Body10}, d \in {Jan, Jun} }

\* the text of a date written as code points relative to "0"
date_text(d) ==
    [k \in 1..Len(d) |->
        IF d[k] = -3 THEN "-"
        ELSE <<"0", "1", "2", "3", "4", "5", "6", "7", "8", "9">>[d[k] + 1]]

\* a record of clean_posts.json as process_all_posts reads it
AsLoaded(post) ==
    Record("object", post.id, post.title, post.content, date_text(post.date))

EarlierReport == [run |-> "earlier", entries |-> <<>>]
EarlierClean == [run |-> "earlier", entries |-> <<>>]

InitMain ==
    /\ IdleDedupe
    /\ IdleHeader
    /\ has_yaml = TRUE
    /\ IdleSanitize
    /\ IdleMarkdown
    /\ pp_pc = "idle"
    /\ pp_readable = TRUE
    /\ pp_n = 0
    /\ pp_i = 0
    /\ pp_post = <<>>
    /\ pp_content = <<>>
    /\ written = <<>>
    /\ processed_count = 0
    /\ skipped_count = 0
    /\ main_pc = "start"
    /\ main_readable \in BOOLEAN
    /\ main_n \in 0..MaxLoaded
    /\ main_readable = FALSE => main_n = 0
    /\ main_rc = "none"
    /\ IdleExcerpt
    \* ../output is new, or holds what an earlier run wrote
    /\ \/ report = NoFile /\ clean = NoFile /\ files = <<>>
       \/ report = EarlierReport /\ clean = EarlierClean /\ files = OldFiles
    /\ output_dir \in BOOLEAN
    /\ report # NoFile => output_dir

main_unchanged == <<header_vars, sanitize_vars, markdown_vars, excerpt_vars>>

\* the variables of process_all_posts but output_dir
conversion_vars == <<pp_pc, pp_readable, pp_n, pp_i, pp_post, pp_content, files,
                     written, processed_count, skipped_count>>

\* lines 165-171: ../output is made and the export is loaded
LoadPosts ==
    /\ main_pc = "start"
    /\ main_readable
    /\ main_pc' = "dedupe"
    /\ output_dir' = TRUE
    /\ UNCHANGED <<main_readable, main_n, report, clean, main_rc, dedupe_vars,
                   conversion_vars, main_unchanged>>

\* Mutant: line 185 left out: the run goes on to step 2 after the failure.
LoadPostsFails_goesOn ==
    /\ main_pc = "start"
    /\ ~main_readable
    /\ main_pc' = "convert"
    /\ output_dir' = TRUE
    /\ UNCHANGED <<main_readable, main_n, report, clean, main_rc, dedupe_vars,
                   conversion_vars, main_unchanged>>

\* lines 165-170, 183-185: ../output is made, load_posts raises, main() prints
\* and returns 1
LoadPostsFails ==
    /\ main_pc = "start"
    /\ ~main_readable
    /\ main_pc' = "returned"
    /\ main_rc' = 1
    /\ output_dir' = TRUE
    /\ UNCHANGED <<main_readable, main_n, report, clean, dedupe_vars,
                   conversion_vars, main_unchanged>>

\* the record the loop of find_duplicates takes next in main()
MainNextPosts ==
    IF main_pc = "dedupe" /\ i < main_n THEN MainRecords(i + 1) ELSE {}

\* lines 174-179: find_duplicates has returned and the report is saved
SaveReport ==
    /\ main_pc = "dedupe"
    /\ i = main_n
    /\ report' = [run |-> "this", entries |-> duplicates]
    /\ main_pc' = "save_clean"
    /\ UNCHANGED <<main_readable, main_n, clean, main_rc, dedupe_vars,
                   process_vars, main_unchanged>>

\* line 180: the unique records are saved
SaveClean ==
    /\ main_pc = "save_clean"
    /\ clean' = [run |-> "this", entries |-> unique_posts]
    /\ main_pc' = "convert"
    /\ UNCHANGED <<main_readable, main_n, report, main_rc, dedupe_vars,
                   process_vars, main_unchanged>>

\* lines 190-201: process_all_posts is called on clean_posts.json if there
\* is one, on the export otherwise
StartConversion ==
    /\ main_pc = "convert"
    /\ main_pc' = "converting"
    /\ pp_pc' = "start"
    /\ pp_readable' = (clean.run # "none" \/ main_readable)
    /\ pp_n' = Len(clean.entries)
    /\ UNCHANGED <<pp_i, pp_post, pp_content, files, output_dir,
                   written, processed_count,
                   skipped_count, main_readable, main_n, report, clean, main_rc,
                   dedupe_vars, main_unchanged>>

\* the record the loop of process_all_posts takes next in main()
MainNextLoaded ==
    IF main_pc = "converting" /\ pp_pc = "loop" /\ pp_i < Len(clean.entries)
    THEN {AsLoaded(clean.entries[pp_i + 1])} ELSE {}

\* lines 202-215: process_all_posts has returned, main() returns 0
FinishMain ==
    /\ main_pc = "converting"
    /\ pp_pc = "returned"
    /\ main_pc' = "returned"
    /\ main_rc' = 0
    /\ UNCHANGED <<main_readable, main_n, report, clean, dedupe_vars,
                   process_vars, main_unchanged>>

NextMain ==
    \/ LoadPosts
    \/ LoadPostsFails
    \/ \E post \in MainNextPosts : ContentDuplicate(post)
    \/ \E post \in MainNextPosts : TitleKeptNewer(post)
    \/ \E post \in MainNextPosts : TitleKeptOlder(post)
    \/ \E post \in MainNextPosts : UniquePost(post)
    \/ SaveReport
    \/ SaveClean
    \/ StartConversion
    \/ RemoveExisting
    \/ LoadInput
    \/ \E post \in MainNextLoaded : TakePost(post)
    \/ SkipPost
    \/ WritePost
    \/ ReturnProcess
    \/ FinishMain

SpecMain == InitMain /\ [][NextMain]_vars

\* main() is a sequential program: once called, it does attempt the load of
\* line 170
SpecMainFair == SpecMain /\ WF_vars(LoadPosts) /\ WF_vars(LoadPostsFails)

(***************************************************************************)
(* extract_excerpt (html_to_markdown.py lines 94-112)                      *)
(***************************************************************************)
\* line 94: max_length=200
DefaultMaxLength == 200

\* line 100: the characters of the class [*_`#>\-\[\]()]
MarkupChars == {"*", "_", Grave, "#", ">", "-", "[", "]", "(", ")"}

\* line 100: re.sub(r'[*_`#>\-\[\]()]', '', content), on s[lo..hi]; the range
\* is halved so that a text of some hundred characters is no deep recursion
RECURSIVE without_markup_in(_, _, _)
without_markup_in(s, lo, hi) ==
    IF lo > hi THEN <<>>
    ELSE IF lo = hi THEN (IF s[lo] \in MarkupChars THEN <<>> ELSE <<s[lo]>>)
    ELSE without_markup_in(s, lo, (lo + hi) \div 2)
         \o without_markup_in(s, (lo + hi) \div 2 + 1, hi)

without_markup(s) == without_markup_in(s, 1, Len(s))

\* line 101: re.sub(r'\s+', ' ', excerpt), on s[lo..hi]: a run of whitespace
\* leaves one space, at its first character
RECURSIVE one_space_in(_, _, _)
one_space_in(s, lo, hi) ==
    IF lo > hi THEN <<>>
    ELSE IF lo = hi
    THEN (IF s[lo] \notin Whitespace THEN <<s[lo]>>
          ELSE IF lo = 1 THEN <<" ">>
          ELSE IF s[lo - 1] \notin Whitespace THEN <<" ">>
          ELSE <<>>)
    ELSE one_space_in(s, lo, (lo + hi) \div 2)
         \o one_space_in(s, (lo + hi) \div 2 + 1, hi)

one_space(s) == one_space_in(s, 1, Len(s))

\* lines 100-101: the text without its markdown punctuation, whitespace
\* collapsed and stripped
cleaned(content) == strip(one_space(without_markup(content)))

\* str.rfind(' '): the 0-based index of the last space, -1 when there is none
rfind_space(s) ==
    LET at == {k \in 1..Len(s) : s[k] = " "} IN
    IF at = {} THEN 0 - 1 ELSE MaxOf(at) - 1

\* Mutant: ">=" where line 109 has ">".
is_word_boundary_orEqual(last_space, max_length) ==
    5 * last_space >= 4 * max_length

\* line 109: last_space > max_length * 0.8.  The float product is the exact
\* value of 4 * max_length / 5 whenever that is an integer, so the comparison
\* is the comparison of the integers 5 * last_space and 4 * max_length.
is_word_boundary(last_space, max_length) ==
    5 * last_space > 4 * max_length

\* lines 103-112, excerpt being the cleaned text
truncate(excerpt, max_length) ==
    IF Len(excerpt) <= max_length THEN excerpt
    ELSE LET truncated == SubSeq(excerpt, 1, max_length)
             last_space == rfind_space(truncated) IN
         (IF is_word_boundary(last_space, max_length)
          THEN SubSeq(truncated, 1, last_space)
          ELSE truncated) \o Dots

\* extract_excerpt(content, max_length)
extract_excerpt(content, max_length) ==
    IF content = <<>> THEN <<>> ELSE truncate(cleaned(content), max_length)

(***************************************************************************)
(* One call of extract_excerpt.  The argument is two words of one letter   *)
(* each with a separator between them; max_length is MaxWord or the        *)
(* default.                                                                *)
(***************************************************************************)
Run(c, n) == [k \in 1..n |-> c]

Separators == {<<" ">>, <<" ", "\n">>, <<"*">>, <<"-", " ">>}

\* the lengths of the first word of an argument of 250 characters
LongWords == {100, 159, 160, 161, 190, 199, 249}

\* the length of a long argument: a quarter more than the default max_length
LongLength == DefaultMaxLength + DefaultMaxLength \div 4

ExcerptContent(a, sep, b) == Run("x", a) \o sep \o Run("y", b)

ExcerptArgs ==
    { [content |-> ExcerptContent(a, sep, b), max_length |-> MaxWord] :
        a \in 0..MaxWord, sep \in Separators, b \in 0..MaxWord }
    \cup
    { [content |-> ExcerptContent(a, sep, LongLength - a - Len(sep)),
       max_length |-> DefaultMaxLength] :
        a \in LongWords, sep \in Separators }

InitExcerpt ==
    /\ IdleDedupe
    /\ IdleHeader
    /\ has_yaml = TRUE
    /\ IdleSanitize
    /\ IdleMarkdown
    /\ IdleProcess
    /\ IdleMain
    /\ \E args \in ExcerptArgs :
          /\ ex_content = args.content
          /\ ex_max = args.max_length
    /\ ex_pc = "called"
    /\ ex_result = <<>>

\* extract_excerpt(content, max_length) runs and returns
Excerpt ==
    /\ ex_pc = "called"
    /\ ex_pc' = "returned"
    /\ ex_result' = extract_excerpt(ex_content, ex_max)
    /\ UNCHANGED <<ex_content, ex_max, dedupe_vars, header_vars, sanitize_vars,
                   markdown_vars, process_vars, main_vars>>

NextExcerpt == Excerpt

SpecExcerpt == InitExcerpt /\ [][NextExcerpt]_vars

(***************************************************************************)
(* Properties of find_duplicates                                           *)
(***************************************************************************)
Elems(s) == {s[k] : k \in 1..Len(s)}

\* One more entry was appended to the ledger, of this type and action, for
\* the record the step took and the record original_post.
Appended(type, action, original_post) ==
    /\ Len(duplicates') = Len(duplicates) + 1
    /\ SubSeq(duplicates', 1, Len(duplicates)) = duplicates
    /\ Last(duplicates').type = type
    /\ Last(duplicates').action = action
    /\ Last(duplicates').duplicate_id = posts'[i'].id
    /\ Last(duplicates').original_id = original_post.id

\* The step took a record that is a title duplicate: new fingerprint,
\* non-empty title key held by a registered record.
TookTitleDuplicate ==
    /\ i' = i + 1
    /\ create_content_hash(posts'[i']) \notin DOMAIN seen_hashes
    /\ lower(strip(posts'[i'].title)) # <<>>
    /\ lower(strip(posts'[i'].title)) \in DOMAIN seen_titles

\* C1: a step that takes a record whose content fingerprint is already
\* registered appends one content_duplicate entry and leaves the unique list
\* and both tables as they were, whatever the two dates.
C1_ContentDuplicateNeverReplaces ==
    [][ (i' = i + 1 /\ create_content_hash(posts'[i']) \in DOMAIN seen_hashes)
        => /\ unique_posts' = unique_posts
           /\ seen_hashes' = seen_hashes
           /\ seen_titles' = seen_titles
           /\ Appended("content_duplicate", "none",
                       seen_hashes[create_content_hash(posts'[i'])]) ]_vars

\* A content duplicate dated after the record it repeats was discarded, and
\* so was one dated before the record it repeats.
C1_Witness ==
    /\ call = 1
    /\ \E k \in 1..Len(duplicates) :
          /\ duplicates[k].type = "content_duplicate"
          /\ str_gt(duplicates[k].duplicate_date, duplicates[k].original_date)
    /\ \E k \in 1..Len(duplicates) :
          /\ duplicates[k].type = "content_duplicate"
          /\ str_gt(duplicates[k].original_date, duplicates[k].duplicate_date)

\* C2: a step that takes a title duplicate R dated strictly after the holder
\* S of its title key removes S from the unique list, puts R last, and
\* appends one title_duplicate entry with action kept_newer.
C2_NewerReplacesAtEnd ==
    [][ (TookTitleDuplicate
         /\ str_gt(posts'[i'].date, seen_titles[lower(strip(posts'[i'].title))].date))
        => /\ seen_titles[lower(strip(posts'[i'].title))] \notin Elems(unique_posts')
           /\ unique_posts' # <<>>
           /\ Last(unique_posts') = posts'[i']
           /\ Appended("title_duplicate", "kept_newer",
                       seen_titles[lower(strip(posts'[i'].title))]) ]_vars

\* The first record was superseded by the third while the second stayed:
\* the third stands last, not where the first stood.
C2_Witness ==
    /\ call = 1 /\ i = 3
    /\ duplicates # <<>>
    /\ Last(duplicates).action = "kept_newer"
    /\ Last(duplicates).original_id = 1
    /\ unique_posts = <<posts[2], posts[3]>>

\* C3: a step that takes a title duplicate R dated not strictly after the
\* holder S of its title key leaves the unique list and both tables as they
\* were and appends one title_duplicate entry with action kept_older.
C3_NotNewerIsDiscarded ==
    [][ (TookTitleDuplicate
         /\ ~str_gt(posts'[i'].date, seen_titles[lower(strip(posts'[i'].title))].date))
        => /\ unique_posts' = unique_posts
           /\ seen_hashes' = seen_hashes
           /\ seen_titles' = seen_titles
           /\ Appended("title_duplicate", "kept_older",
                       seen_titles[lower(strip(posts'[i'].title))]) ]_vars

\* A title duplicate with the holder's own date was discarded, and so was
\* one dated before the holder.
C3_Witness ==
    /\ call = 1
    /\ \E k \in 1..Len(duplicates) :
          /\ duplicates[k].action = "kept_older"
          /\ duplicates[k].duplicate_date = duplicates[k].original_date
          /\ duplicates[k].original_date # <<>>
    /\ \E k \in 1..Len(duplicates) :
          /\ duplicates[k].action = "kept_older"
          /\ str_gt(duplicates[k].original_date, duplicates[k].duplicate_date)

\* The input of the finished first call is the pair of the tie-break example
\* in either order: the same title "X", the dates 2020-01-01 and 2020-06-01.
IsTieBreakPair ==
    /\ call = 1 /\ pc = "returned" /\ Len(posts) = 2
    /\ posts[1].title = <<"X">> /\ posts[2].title = <<"X">>
    /\ {posts[1].date, posts[2].date} = {Jan, Jun}

\* the record of the pair dated 2020-06-01
TieBreakB == IF posts[1].date = Jun THEN posts[1] ELSE posts[2]

\* C4 as stated, for bodies that give different content fingerprints: both
\* orders end with unique = [B] and one title_duplicate entry whose action
\* is kept_newer.
C4_Original ==
    (IsTieBreakPair /\ create_content_hash(posts[1]) # create_content_hash(posts[2]))
    => /\ unique_posts = <<TieBreakB>>
       /\ Len(duplicates) = 1
       /\ duplicates[1].type = "title_duplicate"
       /\ duplicates[1].action = "kept_newer"

\* C4 amended: with different content fingerprints, both orders end with
\* unique = [B] and one title_duplicate entry; its action is kept_newer for
\* [A, B] and kept_older for [B, A].
C4_TieBreakPair ==
    (IsTieBreakPair /\ create_content_hash(posts[1]) # create_content_hash(posts[2]))
    => /\ unique_posts = <<TieBreakB>>
       /\ Len(duplicates) = 1
       /\ duplicates[1].type = "title_duplicate"
       /\ duplicates[1].action =
             IF posts[1].date = Jan THEN "kept_newer" ELSE "kept_older"

\* find_duplicates([B, A]) has returned.
C4_Witness ==
    /\ IsTieBreakPair
    /\ create_content_hash(posts[1]) # create_content_hash(posts[2])
    /\ posts[1].date = Jun
    /\ unique_posts = <<posts[1]>>

\* C5: the second call, on the unique list of the first, returns that list
\* and an empty ledger.
C5_Idempotent ==
    (call = 2 /\ pc = "returned")
    => /\ unique_posts = first_result[1]
       /\ duplicates = <<>>

\* The second call returned, after a first call that discarded a content
\* duplicate and replaced a record by a newer one of the same title.
C5_Witness ==
    /\ call = 2 /\ pc = "returned"
    /\ Len(unique_posts) >= 1
    /\ \E k \in 1..Len(first_result[2]) : first_result[2][k].action = "kept_newer"
    /\ \E k \in 1..Len(first_result[2]) :
          first_result[2][k].type = "content_duplicate"

\* C6 as stated: every record a lookup table maps to is in the unique list.
C6_TablesPointAtSurvivors ==
    /\ \A h \in DOMAIN seen_hashes : seen_hashes[h] \in Elems(unique_posts)
    /\ \A t \in DOMAIN seen_titles : seen_titles[t] \in Elems(unique_posts)

\* The processed record k has an empty or whitespace-only title.
HasNoTitle(k) == strip(posts[k].title) = <<>>

\* C7, the parts that hold as stated: an empty or whitespace-only title
\* gives an empty key, no title_duplicate entry names such a record on
\* either side, and no title key is registered for one.
C7_NoTitleKey ==
    /\ \A k \in 1..i : HasNoTitle(k) => title_key(posts[k]) = <<>>
    /\ <<>> \notin DOMAIN seen_titles
    /\ \A t \in DOMAIN seen_titles : strip(seen_titles[t].title) # <<>>
    /\ call = 1 =>
          \A e \in Elems(duplicates) :
              e.type = "title_duplicate"
              => ~HasNoTitle(e.duplicate_id) /\ ~HasNoTitle(e.original_id)

\* C7 as stated: moreover any two processed records with empty titles and
\* different bodies are both in the unique list.
C7_Original ==
    /\ C7_NoTitleKey
    /\ call = 1 =>
          \A j, k \in 1..i :
              (HasNoTitle(j) /\ HasNoTitle(k) /\ posts[j].content # posts[k].content)
              => posts[j] \in Elems(unique_posts) /\ posts[k] \in Elems(unique_posts)

\* C7 amended: moreover a record with an empty title is in the unique list
\* unless an earlier record has its content fingerprint, so two such records
\* with different fingerprints, given as the input, are both kept.
C7_EmptyTitleNeverTitleDuplicate ==
    /\ C7_NoTitleKey
    /\ call = 1 =>
          \A k \in 1..i :
              HasNoTitle(k)
              => \/ posts[k] \in Elems(unique_posts)
                 \/ \E j \in 1..(k - 1) :
                       create_content_hash(posts[j]) = create_content_hash(posts[k])
    /\ (call = 1 /\ i = 2 /\ HasNoTitle(1) /\ HasNoTitle(2)
        /\ create_content_hash(posts[1]) # create_content_hash(posts[2]))
       => unique_posts = posts

\* An empty title and a whitespace-only title with different fingerprints
\* were both kept, beside a titled record.
C7_Witness ==
    /\ call = 1 /\ i = 3
    /\ posts[1].title = <<>> /\ posts[2].title = <<" ">>
    /\ create_content_hash(posts[1]) # create_content_hash(posts[2])
    /\ ~HasNoTitle(3)
    /\ unique_posts = posts

\* The loser and the survivor dates of a title_duplicate entry.
LoserDate(e) ==
    IF e.action = "kept_newer" THEN e.original_date ELSE e.duplicate_date
SurvivorDate(e) ==
    IF e.action = "kept_newer" THEN e.duplicate_date ELSE e.original_date

\* C8 as stated: in a title tie-break a record without date never wins
\* against a dated record, and the pass does not end in an error over a
\* missing date.
C8_MissingDateLoses ==
    /\ raised # "date"
    /\ \A e \in Elems(duplicates) :
          e.type = "title_duplicate"
          => ~(SurvivorDate(e) = <<>> /\ LoserDate(e) # <<>>)

\* C22: at every step of the pass and at its end, the records in the unique
\* list and the ledger entries are together as many as the records taken so
\* far: every record taken is either in the unique list or told of by one
\* entry of the ledger.
C22_EveryRecordOnce ==
    pc # "raised" => Len(unique_posts) + Len(duplicates) = i

\* s without its k-th element
WithoutNth(s, k) == SubSeq(s, 1, k - 1) \o SubSeq(s, k + 1, Len(s))

\* The step took a title duplicate dated strictly after the holder of its
\* title key.
TookNewerTitleDuplicate ==
    /\ TookTitleDuplicate
    /\ str_gt(posts'[i'].date, seen_titles[lower(strip(posts'[i'].title))].date)

\* C23: a step that takes a title duplicate R dated strictly after the holder
\* S of its title key ends without error, whatever ids the records carry, and
\* takes S and no other record out of the unique list: the new list is the
\* old one without S, with R after it, and is as long as the old one.
C23_ReplacementRemovesOne ==
    [][ TookNewerTitleDuplicate
        => /\ pc' # "raised"
           /\ Len(unique_posts') = Len(unique_posts)
           /\ \E k \in 1..Len(unique_posts) :
                 /\ unique_posts[k] = seen_titles[lower(strip(posts'[i'].title))]
                 /\ unique_posts' = Append(WithoutNth(unique_posts, k), posts'[i']) ]_vars

\* C24: at every point of the pass no two records of the unique list have
\* the same content fingerprint, and no two have the same non-empty title
\* key.
C24_DistinctSurvivors ==
    \A j, k \in 1..Len(unique_posts) :
        j # k =>
            /\ create_content_hash(unique_posts[j])
                  # create_content_hash(unique_posts[k])
            /\ title_key(unique_posts[j]) # <<>>
                  => title_key(unique_posts[j]) # title_key(unique_posts[k])

\* three records taken: one discarded as a title duplicate, a titled and an
\* untitled record left in the unique list
C24_Witness ==
    /\ call = 1 /\ i = 3
    /\ Len(unique_posts) = 2
    /\ \E k \in 1..2 : title_key(unique_posts[k]) # <<>>
    /\ \E k \in 1..2 : title_key(unique_posts[k]) = <<>>
    /\ Len(duplicates) = 1
    /\ duplicates[1].type = "title_duplicate"

\* the dates of the records the ledger tells were discarded as title
\* duplicates for the title key t
DiscardedDates(t) ==
    {LoserDate(e) : e \in {d \in Elems(duplicates) :
                              d.type = "title_duplicate" /\ d.title = t}}

\* the unique list holds a record with the fingerprint of post
FingerprintKept(post) ==
    \E u \in Elems(unique_posts) :
        create_content_hash(u) = create_content_hash(post)

\* the unique list holds a record with the title key of post that is dated
\* no earlier than any record discarded as a title duplicate for that key
TitleKept(post) ==
    \E u \in Elems(unique_posts) :
        /\ title_key(u) = title_key(post)
        /\ \A d \in DiscardedDates(title_key(post)) : ~str_gt(d, u.date)

\* C25: when the pass has returned, for every record of the input the unique
\* list holds a record with the same content fingerprint or, if the record
\* has a non-empty title key, a record with the same title key dated no
\* earlier than every record discarded as a title duplicate for that key.
C25_NoContentLost ==
    (call = 1 /\ pc = "returned") =>
        \A k \in 1..i :
            \/ FingerprintKept(posts[k])
            \/ title_key(posts[k]) # <<>> /\ TitleKept(posts[k])

(***************************************************************************)
(* Properties of create_safe_front_matter                                  *)
(***************************************************************************)
\* C9: whatever the field values, the text create_safe_front_matter returns
\* (the full header or the fallback header) passes validation.
C9_HeaderAlwaysParses ==
    fm_pc = "returned" => validate_yaml_front_matter(fm_returned, has_yaml)

PostTitle == <<DQ, "P", "o", "s", "t", " ", "T", "i", "t", "l", "e", DQ>>
Uncategorized ==
    <<DQ, "u", "n", "c", "a", "t", "e", "g", "o", "r", "i", "z", "e", "d", DQ>>

\* the assembled header fails validation
FailsValidation ==
    fm_pc = "built" /\ ~validate_yaml_front_matter(fm_text, has_yaml)

\* the assembled header failed validation and the call has returned
ReturnedFallback == fm_pc = "returned" /\ fm_warned

\* C10 as stated: when the assembled header fails validation, the call
\* returns a fallback header whose title line carries the title (the literal
\* fallback string when there is no title), with an empty subtitle, an empty
\* category, empty tags, the original date and the type marker.
C10_Original ==
    [][FailsValidation =>
        LET l == split_lines(fm_returned') IN
        /\ fm_pc' = "returned"
        /\ Len(l) >= 8
        /\ l[2] = K_title \o (IF strip(fm_args.title) = <<>> THEN PostTitle
                              ELSE sanitize_yaml_string(fm_args.title))
        /\ l[3] = K_subtitle \o <<DQ, DQ>>
        /\ l[4] = K_category \o <<DQ, DQ>>
        /\ l[5] = K_tags \o <<"[", "]">>
        /\ l[6] = K_date \o <<DQ>> \o fm_args.date \o <<DQ>>
        /\ l[7] = K_type \o <<DQ>> \o fm_args.post_type \o <<DQ>>]_vars

\* C10 (amended): when the assembled header fails validation, the call does
\* not raise but returns a fixed fallback header: the literal title
\* "Post Title" whatever the title was, an empty subtitle, the category
\* "uncategorized", empty tags, the original date and the type marker each
\* put between double quotes as they are, and no wordpress_id line; then the
\* closing marker and two line ends.
C10_FallbackHeader ==
    [][FailsValidation =>
        /\ fm_pc' = "returned"
        /\ split_lines(fm_returned') =
               << Marker,
                  K_title \o PostTitle,
                  K_subtitle \o <<DQ, DQ>>,
                  K_category \o Uncategorized,
                  K_tags \o <<"[", "]">>,
                  K_date \o <<DQ>> \o fm_args.date \o <<DQ>>,
                  K_type \o <<DQ>> \o fm_args.post_type \o <<DQ>>,
                  Marker, << >>, << >> >>]_vars

\* a call with a title, tags, a date that holds a double quote and a
\* wordpress_id fell back
C10_Witness ==
    /\ ReturnedFallback
    /\ strip(fm_args.title) # <<>>
    /\ fm_args.tags # <<>>
    /\ DQ \in Chars(fm_args.date)
    /\ fm_args.has_wordpress_id

\* a body that is one line of text
OneLineBody == <<"b", "o", "d", "y">>

\* C11: the returned header, followed by the body as process_post_content
\* joins them, is an opening marker line, the key lines title, subtitle,
\* category, tags, date, type in this order, possibly a wordpress_id line, a
\* closing marker line and a blank line, after which the body starts.
C11_HeaderShape ==
    fm_pc = "returned" =>
        LET l == split_lines(full_content(fm_returned, OneLineBody))
            c == IF Len(l) >= 8 /\ StartsWithAt(l[8], K_wordpress_id, 1)
                 THEN 9 ELSE 8 IN
        /\ Len(l) = c + 2
        /\ l[1] = Marker
        /\ StartsWithAt(l[2], K_title, 1)
        /\ StartsWithAt(l[3], K_subtitle, 1)
        /\ StartsWithAt(l[4], K_category, 1)
        /\ StartsWithAt(l[5], K_tags, 1)
        /\ StartsWithAt(l[6], K_date, 1)
        /\ StartsWithAt(l[7], K_type, 1)
        /\ l[c] = Marker
        /\ l[c + 1] = <<>>
        /\ l[c + 2] = OneLineBody

(***************************************************************************)
(* Properties of sanitize_yaml_string                                      *)
(***************************************************************************)
\* The text a double-quoted value stands for when its only escapes are \\
\* and \": <<TRUE, text>>, or <<FALSE, ...>> when a quote stands unescaped in
\* it or a backslash escapes something else.
RECURSIVE Unquoted(_)
Unquoted(s) ==
    IF s = <<>> THEN <<TRUE, <<>>>>
    ELSE IF s[1] = DQ THEN <<FALSE, <<>>>>
    ELSE IF s[1] = BS
    THEN (IF Len(s) >= 2 /\ s[2] \in {BS, DQ}
          THEN LET r == Unquoted(SubSeq(s, 3, Len(s))) IN <<r[1], <<s[2]>> \o r[2]>>
          ELSE <<FALSE, <<>>>>)
    ELSE LET r == Unquoted(Tail(s)) IN <<r[1], <<s[1]>> \o r[2]>>

\* the value the quoting rule is applied to: the argument after character
\* references are resolved and surrounding whitespace is removed
SanitizedValue == strip(unescape(sy_text))

\* C12: for a non-empty argument, with v the value after unescaping and
\* trimming: if v has a double quote and no single quote the result is v
\* between single quotes, unchanged; if v has a single quote and no double
\* quote the result is v between double quotes, unchanged; otherwise the
\* result is between double quotes, with every backslash and double quote of
\* v escaped, so that no double quote stands unescaped inside.
C12_QuotingRule ==
    (sy_pc = "returned" /\ sy_text # <<>>) =>
        LET v == SanitizedValue
            r == sy_result
            inner == SubSeq(r, 2, Len(r) - 1) IN
        /\ Len(r) >= 2
        /\ IF DQ \in Chars(v) /\ SQ \notin Chars(v)
           THEN r[1] = SQ /\ r[Len(r)] = SQ /\ inner = v
           ELSE IF SQ \in Chars(v) /\ DQ \notin Chars(v)
           THEN r[1] = DQ /\ r[Len(r)] = DQ /\ inner = v
           ELSE r[1] = DQ /\ r[Len(r)] = DQ /\ Unquoted(inner) = <<TRUE, v>>

\* a value with both kinds of quote and a backslash was sanitized
C12_Witness ==
    /\ sy_pc = "returned"
    /\ {DQ, SQ, BS} \subseteq Chars(SanitizedValue)
    /\ Len(sy_result) > Len(SanitizedValue) + 2

(***************************************************************************)
(* Properties of html_to_markdown                                          *)
(***************************************************************************)
\* the lines of the result, without the whitespace around them
ContentLines ==
    LET l == split_lines(md_content) IN {strip(l[k]) : k \in 1..Len(l)}

\* the decimal numeral of a count from 1 to 9
Numeral == <<"1", "2", "3", "4", "5", "6", "7", "8", "9">>

\* the items of the lists of the given kind in the argument, each with its
\* place in its list
ItemsOf(kind) ==
    UNION {{<<k, md_blocks[n].items[k]>> : k \in 1..Len(md_blocks[n].items)} :
              n \in {m \in 1..Len(md_blocks) : md_blocks[m].kind = kind}}

\* C18: html_to_markdown removes script blocks, style blocks and comments
\* entirely: no character of the text between <script> or <style> and its
\* closing tag, or inside a comment, is in the result.
C18_HiddenTextRemoved ==
    md_pc = "returned" =>
        \A k \in 1..Len(md_content) : md_content[k] \notin HiddenChars

\* C19: the i-th item of each ordered list of the argument becomes a line
\* "i. item" of the result, the count starting at 1 in every list.
C19_OrderedItemsNumbered ==
    md_pc = "returned" =>
        \A it \in ItemsOf("ol") :
            <<Numeral[it[1]], ".", " ">> \o it[2] \in ContentLines

\* C20: every item of an unordered list of the argument becomes a line
\* "- item" of the result, on a line of its own, also when nothing stands
\* between the <li> elements.
C20_UnorderedItemsOnOwnLines ==
    md_pc = "returned" =>
        \A it \in ItemsOf("ul") : <<"-", " ">> \o it[2] \in ContentLines

(***************************************************************************)
(* Properties of process_all_posts                                         *)
(***************************************************************************)
\* the names the writes before the k-th used
NamesBefore(k) == {written[j].name : j \in 1..(k - 1)}

\* C13: in one run of process_all_posts the names written are pairwise
\* distinct and no document is overwritten; a record whose base name X.md is
\* free is written as X.md, otherwise as X-c.md for the least counter c >= 1
\* whose name no earlier write of the run has, so that records with the same
\* base name come out as X.md, X-1.md, X-2.md in processing order.
C13_DistinctNames ==
    /\ \A j, k \in 1..Len(written) : j # k => written[j].name # written[k].name
    /\ \A k \in 1..Len(written) :
           /\ written[k].name \in DOMAIN files
           /\ files[written[k].name].writer = written[k].post
    /\ DOMAIN files = {written[k].name : k \in 1..Len(written)}
           \cup {n \in DOMAIN files : files[n].writer = 0}
    /\ \A k \in 1..Len(written) :
           LET X == written[k].base IN
           IF X \notin NamesBefore(k) THEN written[k].name = X
           ELSE \E c \in 1..Len(Numerals) :
                   /\ written[k].name = Suffixed(X, c)
                   /\ written[k].name \notin NamesBefore(k)
                   /\ \A d \in 1..(c - 1) : Suffixed(X, d) \in NamesBefore(k)
    /\ \A k \in 1..Len(written) :
           (\A j \in 1..k : written[j].base = written[1].base) =>
               written[k].name =
                   IF k = 1 THEN written[1].base
                   ELSE Suffixed(written[1].base, k - 1)

\* three records with one base name have been written and the call is over
C13_Witness ==
    /\ pp_pc = "returned"
    /\ Len(written) = 3
    /\ written[2].base = written[1].base
    /\ written[3].base = written[1].base
    /\ written[3].name = Suffixed(written[1].base, 2)

\* the record the loop body is at is an object with an empty title
EmptyTitle ==
    /\ pp_pc = "body"
    /\ pp_post.shape = "object"
    /\ strip(pp_post.title) = <<>>

\* the rest of the loop body skips the record: nothing is written, the
\* record is counted as skipped and the loop goes on
Skipped ==
    /\ files' = files
    /\ written' = written
    /\ skipped_count' = skipped_count + 1
    /\ processed_count' = processed_count
    /\ pp_pc' = "loop"

TitleLineUntitled == <<"t", "i", "t", "l", "e", ":", " ", DQ, "U", "n", "t", "i", "t", "l", "e", "d", DQ>>
UntitledName == <<"-", "u", "n", "t", "i", "t", "l", "e", "d", ".", "m", "d">>

\* s ends with suffix
EndsWith(s, suffix) ==
    /\ Len(s) >= Len(suffix)
    /\ SubSeq(s, Len(s) - Len(suffix) + 1, Len(s)) = suffix

Unpublishable ==
    /\ pp_pc = "body"
    /\ pp_post.shape # "null"
    /\ \/ strip(pp_post.content) = <<>>
       \/ Len(html_to_markdown(pp_post.content)) < MinContentLength

\* C15: a record whose body markup is empty or whitespace-only, or whose
\* converted text is shorter than 10 characters, produces no document:
\* process_post_content returns no content, no file is written, the record
\* is counted as skipped and no error is raised.
C15_UnpublishableSkipped ==
    [][Unpublishable => (pp_content.kind = "none" /\ Skipped)]_vars

\* a record whose converted text is one character short has been skipped
C15_Witness ==
    /\ pp_pc = "loop"
    /\ pp_post # <<>>
    /\ pp_post.shape = "object"
    /\ pp_post.content = Body9
    /\ skipped_count >= 1
    /\ written = <<>>

\* C16: an exception raised while one record is processed makes only that
\* record skipped and counted, the loop goes on with the next record, and
\* when the loop ends processed_count + skipped_count is the number of
\* records of the input.
C16_ErrorSkipsOneRecord ==
    /\ [][(pp_pc = "body" /\ pp_content.kind = "raise") => Skipped]_vars
    /\ [](pp_pc = "returned" => processed_count + skipped_count = pp_n)

(***************************************************************************)
(* Properties of main()                                                    *)
(***************************************************************************)
\* this run has written no file and has not started step 2
NoOutput ==
    /\ report.run # "this"
    /\ clean.run # "this"
    /\ \A n \in DOMAIN files : files[n].writer = 0
    /\ written = <<>>
    /\ pp_pc = "idle"

\* C17: if the export cannot be read, the run ends before any output is
\* produced: main() returns 1, and at no time does the run write the
\* deduplication report, the clean records or a document, or start the
\* conversion.
C17_UnreadableAborts ==
    /\ [](~main_readable => NoOutput)
    /\ [](~main_readable /\ main_pc = "returned" => main_rc = 1)
    /\ (~main_readable ~> (main_pc = "returned" /\ main_rc = 1))

\* main() has returned 1 on an unreadable export: ../output exists, and what
\* an earlier run left in it is still there
C17_Witness ==
    /\ ~main_readable
    /\ main_pc = "returned"
    /\ main_rc = 1
    /\ output_dir
    /\ report = EarlierReport
    /\ clean = EarlierClean
    /\ files = OldFiles

(***************************************************************************)
(* Properties of extract_excerpt                                           *)
(***************************************************************************)
\* the number of characters before the last space among the first max_length
\* characters of text, -1 when there is no space among them
LastSpaceIn(text, max_length) ==
    LET at == {p \in 0..(max_length - 1) : p < Len(text) /\ text[p + 1] = " "} IN
    IF at = {} THEN 0 - 1 ELSE MaxOf(at)

\* result is text if that has at most max_length characters; otherwise its
\* first last_space characters if cut_back and its first max_length characters
\* if not, with "..." after them
ExcerptRule(result, text, max_length, last_space, cut_back) ==
    IF Len(text) <= max_length THEN result = text
    ELSE IF cut_back THEN result = SubSeq(text, 1, last_space) \o Dots
    ELSE result = SubSeq(text, 1, max_length) \o Dots

\* C21 as stated: the text is cut back to the last space p if and only if
\* p >= 0.8 * M.
C21_Original ==
    ex_pc = "returned" =>
        LET text == cleaned(ex_content)
            last_space == LastSpaceIn(text, ex_max) IN
        ExcerptRule(ex_result, text, ex_max, last_space,
                    5 * last_space >= 4 * ex_max)

\* C21: cleaned text of at most M characters is returned whole without
\* ellipsis; longer text is cut to its first M characters, cut back to the
\* last space p among them if and only if p > 0.8 * M, and "..." is appended.
\* With M = 200, a text of 250 characters whose last space among the first
\* 200 is at most at 160 gives 200 characters and the ellipsis, and one whose
\* last space is at 190 gives 190 characters and the ellipsis.
C21_ExcerptCut ==
    ex_pc = "returned" =>
        LET text == cleaned(ex_content)
            last_space == LastSpaceIn(text, ex_max) IN
        /\ ExcerptRule(ex_result, text, ex_max, last_space,
                       5 * last_space > 4 * ex_max)
        /\ (ex_max = DefaultMaxLength /\ Len(text) = LongLength) =>
              /\ last_space <= 160 => Len(ex_result) = DefaultMaxLength + Len(Dots)
              /\ last_space = 190 => Len(ex_result) = 190 + Len(Dots)

\* a text of 250 characters whose last space among the first 200 is at
\* exactly 160 has been cut at 200, not at 160
C21_Witness ==
    /\ ex_pc = "returned"
    /\ ex_max = DefaultMaxLength
    /\ Len(cleaned(ex_content)) = LongLength
    /\ LastSpaceIn(cleaned(ex_content), ex_max) = 160
    /\ Len(ex_result) = DefaultMaxLength + Len(Dots)

====
